---- MODULE Spec2Model ----
(***************************************************************************)
(* Model of final_project_group_8.py: the address book (AddressBook,       *)
(* Record, the field validators) and the command functions that mutate it. *)
(*                                                                         *)
(* A Python str is a sequence of characters; a character is a one-letter   *)
(* TLA+ string.  "U+0663" stands for the single character ARABIC-INDIC     *)
(* DIGIT THREE, for which str.isdigit() is True; "U+0130" for LATIN        *)
(* CAPITAL LETTER I WITH DOT ABOVE and "U+0307" for COMBINING DOT ABOVE:   *)
(* "U+0130".lower() is the two characters "i" "U+0307".                    *)
(***************************************************************************)
EXTENDS Integers, Sequences, FiniteSets, TLC

\* ------------------------------------------------------------------------
\* Bounds of the model
\* ------------------------------------------------------------------------
MaxContacts == 2
MaxPhones == 2
MaxNotes == 2

\* ------------------------------------------------------------------------
\* Characters and the str methods the program uses
\* ------------------------------------------------------------------------
LowerLetters ==
  <<"a","b","c","d","e","f","g","h","i","j","k","l","m",
    "n","o","p","q","r","s","t","u","v","w","x","y","z">>

UpperLetters ==
  <<"A","B","C","D","E","F","G","H","I","J","K","L","M",
    "N","O","P","Q","R","S","T","U","V","W","X","Y","Z">>

LowerOf ==
  [c \in {UpperLetters[i] : i \in 1..26} |->
     LowerLetters[CHOOSE i \in 1..26 : UpperLetters[i] = c]]

UpperOf ==
  [c \in {LowerLetters[i] : i \in 1..26} |->
     UpperLetters[CHOOSE i \in 1..26 : LowerLetters[i] = c]]

AsciiDigits == {"0","1","2","3","4","5","6","7","8","9"}

UnicodeDigits == {"U+0663"}

DigitVal ==
  [c \in AsciiDigits \cup UnicodeDigits |->
     CASE c = "0" -> 0 [] c = "1" -> 1 [] c = "2" -> 2 [] c = "3" -> 3
       [] c = "4" -> 4 [] c = "5" -> 5 [] c = "6" -> 6 [] c = "7" -> 7
       [] c = "8" -> 8 [] c = "9" -> 9 [] c = "U+0663" -> 3]

IsDigitChar(c) == c \in DOMAIN DigitVal

IsAsciiAlpha(c) == c \in DOMAIN LowerOf \/ c \in DOMAIN UpperOf

\* a cased letter
IsAlphaChar(c) == IsAsciiAlpha(c) \/ c = "U+0130"

\* \w of the re module
IsWordChar(c) == IsAlphaChar(c) \/ IsDigitChar(c) \/ c = "_"

IsSpaceChar(c) == c = " "

lower_char(c) == IF c \in DOMAIN LowerOf THEN LowerOf[c] ELSE c

upper_char(c) == IF c \in DOMAIN UpperOf THEN UpperOf[c] ELSE c

\* str.lower(): character by character, except that "U+0130" lowers to two
\* characters
RECURSIVE lower_full(_)
lower_full(s) ==
  IF s = <<>> THEN <<>>
  ELSE (IF s[1] = "U+0130" THEN <<"i", "U+0307">> ELSE <<lower_char(s[1])>>) \o lower_full(Tail(s))

lower(s) ==
  IF \A i \in 1..Len(s) : s[i] # "U+0130"
  THEN [i \in 1..Len(s) |-> lower_char(s[i])]
  ELSE lower_full(s)

\* str.isdigit()
isdigit(s) == Len(s) > 0 /\ \A i \in 1..Len(s) : IsDigitChar(s[i])

\* str.startswith(p)
startswith(s, p) == Len(s) >= Len(p) /\ SubSeq(s, 1, Len(p)) = p

\* str.endswith(p)
endswith(s, p) == Len(s) >= Len(p) /\ SubSeq(s, Len(s) - Len(p) + 1, Len(s)) = p

\* c in s
contains(s, c) == \E i \in 1..Len(s) : s[i] = c

\* str.capitalize(): first character upper-cased, the rest lower-cased
capitalize(s) == IF s = <<>> THEN <<>> ELSE <<upper_char(s[1])>> \o lower(Tail(s))

\* str.title(): a cased character is upper-cased after an uncased one,
\* lower-cased after a cased one
RECURSIVE title_from(_, _)
title_from(s, previous_is_cased) ==
  IF s = <<>> THEN <<>>
  ELSE (IF previous_is_cased THEN lower(<<s[1]>>) ELSE <<upper_char(s[1])>>)
         \o title_from(Tail(s), IsAlphaChar(s[1]))

title(s) == title_from(s, FALSE)

RECURSIVE lstrip(_)
lstrip(s) == IF Len(s) > 0 /\ IsSpaceChar(s[1]) THEN lstrip(Tail(s)) ELSE s

RECURSIVE rstrip(_)
rstrip(s) ==
  IF Len(s) > 0 /\ IsSpaceChar(s[Len(s)]) THEN rstrip(SubSeq(s, 1, Len(s) - 1)) ELSE s

\* str.strip()
strip(s) == rstrip(lstrip(s))

\* str.lstrip("#")
RECURSIVE lstrip_hash(_)
lstrip_hash(s) == IF Len(s) > 0 /\ s[1] = "#" THEN lstrip_hash(Tail(s)) ELSE s

\* sep.join(parts)
RECURSIVE join(_, _)
join(sep, parts) ==
  IF parts = <<>> THEN <<>>
  ELSE IF Len(parts) = 1 THEN parts[1]
  ELSE parts[1] \o sep \o join(sep, Tail(parts))

\* str.split(sep) for a one-character sep: empty parts are kept
RECURSIVE split_on(_, _, _)
split_on(s, sep, cur) ==
  IF s = <<>> THEN <<cur>>
  ELSE IF s[1] = sep THEN <<cur>> \o split_on(Tail(s), sep, <<>>)
  ELSE split_on(Tail(s), sep, Append(cur, s[1]))

\* str.split(): split on runs of whitespace, no empty parts
RECURSIVE split_ws(_, _)
split_ws(s, cur) ==
  IF s = <<>> THEN (IF cur = <<>> THEN <<>> ELSE <<cur>>)
  ELSE IF IsSpaceChar(s[1])
       THEN (IF cur = <<>> THEN <<>> ELSE <<cur>>) \o split_ws(Tail(s), <<>>)
       ELSE split_ws(Tail(s), Append(cur, s[1]))

Map(f(_), seq) == [i \in 1..Len(seq) |-> f(seq[i])]

\* normalize_name.fix_part
fix_part(part) == join(<<"-">>, Map(capitalize, split_on(part, "-", <<>>)))

normalize_name(name) == join(<<" ">>, Map(fix_part, split_ws(strip(name), <<>>)))

\* " ".join(args)
join_args(args) == join(<<" ">>, args)

\* re.sub(r"#\w+", "", s): every '#' followed by at least one word character
\* is removed together with the whole run of word characters after it
RECURSIVE skip_word(_)
skip_word(s) == IF Len(s) > 0 /\ IsWordChar(s[1]) THEN skip_word(Tail(s)) ELSE s

RECURSIVE sub_tags(_)
sub_tags(s) ==
  IF s = <<>> THEN <<>>
  ELSE IF s[1] = "#" /\ Len(s) >= 2 /\ IsWordChar(s[2]) THEN sub_tags(skip_word(Tail(s)))
  ELSE <<s[1]>> \o sub_tags(Tail(s))

RECURSIVE take_word(_)
take_word(s) ==
  IF Len(s) > 0 /\ IsWordChar(s[1]) THEN <<s[1]>> \o take_word(Tail(s)) ELSE <<>>

\* re.findall(r"#(\w+)", s): the word runs that follow a '#', in order
RECURSIVE findall_tags(_)
findall_tags(s) ==
  IF s = <<>> THEN <<>>
  ELSE IF s[1] = "#" /\ Len(s) >= 2 /\ IsWordChar(s[2])
       THEN <<take_word(Tail(s))>> \o findall_tags(skip_word(Tail(s)))
  ELSE findall_tags(Tail(s))

\* extract_tags_from_text: [tag[1:].lower() for tag in re.findall(r"#\w+", text)]
extract_tags_from_text(text) == Map(lower, findall_tags(text))

Range(seq) == {seq[i] : i \in 1..Len(seq)}

\* ------------------------------------------------------------------------
\* Field validators
\* ------------------------------------------------------------------------
VALID_CODES ==
  { <<"0","5","0">>, <<"0","6","6">>, <<"0","6","7">>, <<"0","6","8">>,
    <<"0","9","5">>, <<"0","9","6">>, <<"0","9","7">>, <<"0","9","8">>,
    <<"0","9","9">>, <<"0","6","3">>, <<"0","7","3">>, <<"0","9","3">> }

\* Phone.__init__: "ok" or the ValueError it raises
Phone_init(value) ==
  IF ~isdigit(value) \/ Len(value) # 10 THEN "phone_not_10_digits"
  ELSE IF ~(\E code \in VALID_CODES : startswith(value, code)) THEN "phone_bad_code"
  ELSE "ok"

\* Email.validate_email: re.match(r"^[\w\.-]+@[\w\.-]+\.\w+$", value)
IsEmailChar(c) == IsWordChar(c) \/ c = "." \/ c = "-"

validate_email(value) ==
  \E at \in 1..Len(value) :
    /\ value[at] = "@"
    /\ at > 1
    /\ \A i \in 1..(at - 1) : IsEmailChar(value[i])
    /\ \E dot \in (at + 2)..(Len(value) - 1) :
         /\ value[dot] = "."
         /\ \A i \in (at + 1)..(dot - 1) : IsEmailChar(value[i])
         /\ \A i \in (dot + 1)..Len(value) : IsWordChar(value[i])

\* Email.__init__
Email_init(value) == IF validate_email(value) THEN "ok" ELSE "email_invalid"

\* Note.TAG_PATTERN = ^[a-zA-Z0-9_]{1,30}$ , used with fullmatch
IsTagChar(c) == IsAsciiAlpha(c) \/ c \in AsciiDigits \/ c = "_"

TAG_PATTERN(tag) ==
  Len(tag) >= 1 /\ Len(tag) <= 30 /\ \A i \in 1..Len(tag) : IsTagChar(tag[i])

\* ---- dates: datetime.strptime(value, "%d.%m.%Y").date() ----
NonZeroAscii == AsciiDigits \ {"0"}

\* %d is  3[0-1]|[1-2]\d|0[1-9]|[1-9]| [1-9]
MatchDay(p) ==
  \/ Len(p) = 2 /\ p[1] = "3" /\ p[2] \in {"0","1"}
  \/ Len(p) = 2 /\ p[1] \in {"1","2"} /\ IsDigitChar(p[2])
  \/ Len(p) = 2 /\ p[1] = "0" /\ p[2] \in NonZeroAscii
  \/ Len(p) = 1 /\ p[1] \in NonZeroAscii
  \/ Len(p) = 2 /\ p[1] = " " /\ p[2] \in NonZeroAscii

\* %m is  1[0-2]|0[1-9]|[1-9]
MatchMonth(p) ==
  \/ Len(p) = 2 /\ p[1] = "1" /\ p[2] \in {"0","1","2"}
  \/ Len(p) = 2 /\ p[1] = "0" /\ p[2] \in NonZeroAscii
  \/ Len(p) = 1 /\ p[1] \in NonZeroAscii

\* %Y is  \d\d\d\d
MatchYear(p) == Len(p) = 4 /\ \A i \in 1..4 : IsDigitChar(p[i])

RECURSIVE to_int(_, _)
to_int(p, acc) ==
  IF p = <<>> THEN acc
  ELSE IF p[1] = " " THEN to_int(Tail(p), acc)
  ELSE to_int(Tail(p), 10 * acc + DigitVal[p[1]])

is_leap(y) == (y % 4 = 0 /\ y % 100 # 0) \/ y % 400 = 0

days_in_month(y, m) ==
  IF m = 2 THEN (IF is_leap(y) THEN 29 ELSE 28)
  ELSE IF m \in {4, 6, 9, 11} THEN 30 ELSE 31

\* datetime.date(y, m, d) exists
valid_date(y, m, d) ==
  y >= 1 /\ y <= 9999 /\ m >= 1 /\ m <= 12 /\ d >= 1 /\ d <= days_in_month(y, m)

NoDate == [ok |-> FALSE, y |-> 0, m |-> 0, d |-> 0]

\* the date strptime returns, or ok = FALSE when it raises ValueError
strptime(value) ==
  LET parts == split_on(value, ".", <<>>) IN
  IF Len(parts) # 3 THEN NoDate
  ELSE IF ~(MatchDay(parts[1]) /\ MatchMonth(parts[2]) /\ MatchYear(parts[3])) THEN NoDate
  ELSE LET d == to_int(parts[1], 0)
           m == to_int(parts[2], 0)
           y == to_int(parts[3], 0)
       IN IF valid_date(y, m, d) THEN [ok |-> TRUE, y |-> y, m |-> m, d |-> d] ELSE NoDate

\* date comparison a < b
date_lt(a, b) ==
  \/ a.y < b.y
  \/ a.y = b.y /\ a.m < b.m
  \/ a.y = b.y /\ a.m = b.m /\ a.d < b.d

\* Birthday.__init__ evaluated on the day `now`
Birthday_init(value, now) ==
  LET dt == strptime(value) IN
  IF ~dt.ok THEN "bday_invalid_format"
  ELSE IF date_lt(now, dt) THEN "bday_future"
  ELSE IF dt.y < 1930 THEN "bday_unrealistic"
  ELSE "ok"

\* ------------------------------------------------------------------------
\* Note and Record
\* ------------------------------------------------------------------------
\* an optional field of a Record: None, or a Field object holding a value
NoneField == [set |-> FALSE, value |-> <<>>]

Field(v) == [set |-> TRUE, value |-> v]

\* what a method returns or raises: `exc` is "" for a normal return, else the
\* exception class; `kind` names the returned or raised message, `info` the
\* name or text it quotes
Ret(kind, info) == [exc |-> "", kind |-> kind, info |-> info]

Raise(exc, kind) == [exc |-> exc, kind |-> kind, info |-> <<>>]

\* Note.add_tag applied to the raw tag: the cleaned tag
tag_clean(tag) == lower(lstrip_hash(tag))

\* Note.__init__: the note, and whether add_tag raised ValueError
Note_init(text, tags) ==
  [ok   |-> \A i \in 1..Len(tags) : TAG_PATTERN(tag_clean(tags[i])),
   note |-> [text |-> strip(text), tags |-> {tag_clean(tags[i]) : i \in 1..Len(tags)}]]

\* Record.__init__
Record_init(name) ==
  [name |-> name, phones |-> <<>>, birthday |-> NoneField, address |-> NoneField,
   email |-> NoneField, notes |-> <<>>]

RemoveAt(seq, i) == SubSeq(seq, 1, i - 1) \o SubSeq(seq, i + 1, Len(seq))

FirstIndex(seq, P(_)) == CHOOSE i \in 1..Len(seq) : P(seq[i]) /\ \A k \in 1..(i - 1) : ~P(seq[k])

\* Record.add_phone without the loop over the other records of the book
Record_add_phone_NoOwnerCheck(self, selfIdx, phone, b) ==
  LET v == Phone_init(phone)
  IN IF v # "ok" THEN [ret |-> Ret(v, <<>>), rec |-> self]
     ELSE IF phone \in Range(self.phones)
          THEN [ret |-> Ret("phone_exists_here", phone), rec |-> self]
     ELSE [ret |-> Ret("None", <<>>), rec |-> [self EXCEPT !.phones = Append(@, phone)]]

\* Record.add_phone inserting the new phone at the front of the list
Record_add_phone_Prepend(self, selfIdx, phone, b) ==
  LET v == Phone_init(phone)
      others == {j \in 1..Len(b) : j # selfIdx /\ phone \in Range(b[j].phones)}
  IN IF v # "ok" THEN [ret |-> Ret(v, <<>>), rec |-> self]
     ELSE IF phone \in Range(self.phones)
          THEN [ret |-> Ret("phone_exists_here", phone), rec |-> self]
     ELSE IF others # {}
          THEN [ret |-> Ret("phone_belongs_to", b[CHOOSE j \in others : \A k \in others : j <= k].name),
                rec |-> self]
     ELSE [ret |-> Ret("None", <<>>), rec |-> [self EXCEPT !.phones = <<phone>> \o @]]

\* Record.add_phone; selfIdx is the position of `self` in the book, 0 when
\* `self` is not (yet) a record of the book
Record_add_phone(self, selfIdx, phone, b) ==
  LET v == Phone_init(phone)
      others == {j \in 1..Len(b) : j # selfIdx /\ phone \in Range(b[j].phones)}
  IN IF v # "ok" THEN [ret |-> Ret(v, <<>>), rec |-> self]
     ELSE IF phone \in Range(self.phones)
          THEN [ret |-> Ret("phone_exists_here", phone), rec |-> self]
     ELSE IF others # {}
          THEN [ret |-> Ret("phone_belongs_to", b[CHOOSE j \in others : \A k \in others : j <= k].name),
                rec |-> self]
     ELSE [ret |-> Ret("None", <<>>), rec |-> [self EXCEPT !.phones = Append(@, phone)]]

\* Record.find_phone: the position of the first phone with this value, 0 for None
Record_find_phone(self, phone) ==
  IF phone \in Range(self.phones)
  THEN FirstIndex(self.phones, LAMBDA p : p = phone)
  ELSE 0

\* Record.remove_phone
Record_remove_phone(self, phone) ==
  LET i == Record_find_phone(self, phone) IN
  IF i # 0 THEN [ret |-> TRUE, rec |-> [self EXCEPT !.phones = RemoveAt(@, i)]]
  ELSE [ret |-> FALSE, rec |-> self]

\* Record.edit_phone removing the old phone and appending the new one
Record_edit_phone_RemoveAppend(self, selfIdx, old_phone, new_phone, b) ==
  LET v == Phone_init(new_phone)
      others == {j \in 1..Len(b) : j # selfIdx /\ new_phone \in Range(b[j].phones)}
  IN IF ~(old_phone \in Range(self.phones))
     THEN [ret |-> Ret("old_phone_not_found", old_phone), rec |-> self]
     ELSE IF v # "ok" THEN [ret |-> Ret(v, <<>>), rec |-> self]
     ELSE IF others # {}
          THEN [ret |-> Ret("new_phone_belongs_to", b[CHOOSE j \in others : \A k \in others : j <= k].name),
                rec |-> self]
     ELSE [ret |-> Ret("None", <<>>),
           rec |-> [self EXCEPT !.phones =
                      Append(RemoveAt(@, FirstIndex(self.phones, LAMBDA p : p = old_phone)), new_phone)]]

\* Record.edit_phone
Record_edit_phone(self, selfIdx, old_phone, new_phone, b) ==
  LET v == Phone_init(new_phone)
      others == {j \in 1..Len(b) : j # selfIdx /\ new_phone \in Range(b[j].phones)}
  IN IF Record_find_phone(self, old_phone) = 0
     THEN [ret |-> Ret("old_phone_not_found", old_phone), rec |-> self]
     ELSE IF v # "ok" THEN [ret |-> Ret(v, <<>>), rec |-> self]
     ELSE IF others # {}
          THEN [ret |-> Ret("new_phone_belongs_to", b[CHOOSE j \in others : \A k \in others : j <= k].name),
                rec |-> self]
     ELSE [ret |-> Ret("None", <<>>),
           rec |-> [self EXCEPT !.phones[FirstIndex(self.phones, LAMBDA p : p = old_phone)] = new_phone]]

\* Record.add_birthday / Record.edit_birthday: Birthday(value) may raise
Record_add_birthday(self, birthday_str, now) ==
  LET v == Birthday_init(birthday_str, now) IN
  IF v # "ok" THEN [ret |-> Raise("ValueError", v), rec |-> self]
  ELSE [ret |-> Ret("None", <<>>), rec |-> [self EXCEPT !.birthday = Field(birthday_str)]]

\* Record.edit_birthday storing the text without constructing a Birthday
Record_edit_birthday_NoValidation(self, new_birthday, now) ==
  [ret |-> Ret("None", <<>>), rec |-> [self EXCEPT !.birthday = Field(new_birthday)]]

Record_edit_birthday(self, new_birthday, now) ==
  LET v == Birthday_init(new_birthday, now) IN
  IF v # "ok" THEN [ret |-> Raise("ValueError", v), rec |-> self]
  ELSE [ret |-> Ret("None", <<>>), rec |-> [self EXCEPT !.birthday = Field(new_birthday)]]

Record_remove_birthday(self) == [self EXCEPT !.birthday = NoneField]

Record_add_address(self, address) == [self EXCEPT !.address = Field(address)]

Record_edit_address(self, new_address) ==
  IF self.address.set THEN [self EXCEPT !.address.value = new_address]
  ELSE Record_add_address(self, new_address)

Record_remove_address(self) == [self EXCEPT !.address = NoneField]

\* Record.add_email: Email(value) may raise
Record_add_email(self, email) ==
  LET v == Email_init(email) IN
  IF v # "ok" THEN [ret |-> Raise("ValueError", v), rec |-> self]
  ELSE [ret |-> Ret("None", <<>>), rec |-> [self EXCEPT !.email = Field(email)]]

\* Record.edit_email creating the email when none is set, as edit_address does
Record_edit_email_CreatesIfAbsent(self, new_email) ==
  LET v == Email_init(new_email) IN
  IF v # "ok" THEN [ret |-> Ret(v, <<>>), rec |-> self]
  ELSE [ret |-> Ret("None", <<>>), rec |-> [self EXCEPT !.email = Field(new_email)]]

\* Record.edit_email
Record_edit_email(self, new_email) ==
  IF self.email.set
  THEN LET v == Email_init(new_email) IN
       IF v # "ok" THEN [ret |-> Ret(v, <<>>), rec |-> self]
       ELSE [ret |-> Ret("None", <<>>), rec |-> [self EXCEPT !.email = Field(new_email)]]
  ELSE [ret |-> Ret("email_not_set", <<>>), rec |-> self]

Record_remove_email(self) == [self EXCEPT !.email = NoneField]

\* note.text.strip().lower()
note_key(note) == lower(strip(note.text))

Record_add_note_NoDuplicateCheck(self, text, tags) ==
  LET n == Note_init(text, tags) IN
  IF ~n.ok THEN [ret |-> Raise("ValueError", "invalid_tag"), rec |-> self]
  ELSE [ret |-> Ret("note", n.note.text), rec |-> [self EXCEPT !.notes = Append(@, n.note)]]

\* Record.add_note: returns the new note, or None for a text already held
Record_add_note(self, text, tags) ==
  LET n == Note_init(text, tags) IN
  IF ~n.ok THEN [ret |-> Raise("ValueError", "invalid_tag"), rec |-> self]
  ELSE IF \E i \in 1..Len(self.notes) : note_key(self.notes[i]) = lower(strip(n.note.text))
       THEN [ret |-> Ret("None", <<>>), rec |-> self]
  ELSE [ret |-> Ret("note", n.note.text), rec |-> [self EXCEPT !.notes = Append(@, n.note)]]

\* list.remove(x): drops the first element equal to x (Note.__eq__: text and tags)
list_remove(seq, x) == RemoveAt(seq, FirstIndex(seq, LAMBDA e : e = x))

\* Record.remove_note
Record_remove_note(self, text) ==
  LET normalized_input == lower(strip(sub_tags(text)))
      hit(n) == note_key(n) = normalized_input
  IN IF \E i \in 1..Len(self.notes) : hit(self.notes[i])
     THEN [ret |-> Ret("note_removed", <<>>),
           rec |-> [self EXCEPT !.notes = list_remove(@, self.notes[FirstIndex(self.notes, hit)])]]
     ELSE [ret |-> Ret("note_not_found", <<>>), rec |-> self]

\* Record.edit_note
Record_edit_note(self, old_text, new_text) ==
  LET normalized_old == lower(strip(old_text))
      cleaned_new_text == strip(sub_tags(new_text))
      new_tags == findall_tags(new_text)
      hit(n) == note_key(n) = normalized_old
      n == Note_init(cleaned_new_text, new_tags)
  IN IF \E i \in 1..Len(self.notes) : hit(self.notes[i])
     THEN IF ~n.ok THEN [ret |-> Raise("ValueError", "invalid_tag"), rec |-> self]
          ELSE [ret |-> Ret("note_edited", <<>>),
                rec |-> [self EXCEPT !.notes[FirstIndex(self.notes, hit)] = n.note]]
     ELSE [ret |-> Ret("note_not_found", <<>>), rec |-> self]

\* ------------------------------------------------------------------------
\* AddressBook: a dict from record.name.value to the record, in insertion
\* order; every key is the name of its record, so the book is the sequence
\* of its records
\* ------------------------------------------------------------------------
\* AddressBook.add_record: data[name] = record keeps the position of an
\* existing key and appends a new one
AddressBook_add_record(b, record) ==
  IF \E i \in 1..Len(b) : b[i].name = record.name
  THEN [b EXCEPT ![CHOOSE i \in 1..Len(b) : b[i].name = record.name] = record]
  ELSE Append(b, record)

\* AddressBook.find: the position of the first record whose key matches
\* case-insensitively, 0 for None
AddressBook_find(b, name) ==
  IF \E i \in 1..Len(b) : lower(b[i].name) = lower(name)
  THEN FirstIndex(b, LAMBDA r : lower(r.name) = lower(name))
  ELSE 0

AddressBook_name_exists(b, name) == \E i \in 1..Len(b) : lower(name) = lower(b[i].name)

\* AddressBook.delete
AddressBook_delete(b, name) ==
  LET i == AddressBook_find(b, name) IN
  IF i # 0 THEN [ret |-> TRUE, book |-> RemoveAt(b, i)] ELSE [ret |-> FALSE, book |-> b]

\* sub in s, for two strings
infix(sub, s) ==
  \E i \in 0..(Len(s) - Len(sub)) : SubSeq(s, i + 1, i + Len(sub)) = sub

\* the positions of the records of b that satisfy Test, in the order of the dict
SelectIdx(b, Test(_)) == SelectSeq([i \in 1..Len(b) |-> i], LAMBDA i : Test(b[i]))

\* AddressBook.search: the records a query matches, by position
AddressBook_search(b, query) ==
  LET q == lower(query)
      match(r) ==
        \/ infix(q, lower(r.name))
        \/ \E k \in 1..Len(r.phones) : infix(q, r.phones[k])
        \/ r.email.set /\ infix(q, lower(r.email.value))
        \/ r.address.set /\ infix(q, lower(r.address.value))
        \/ r.birthday.set /\ infix(q, lower(r.birthday.value))
  IN SelectIdx(b, match)

\* ---- datetime.date arithmetic ----
\* date.toordinal(): day 1 is 01.01.0001
days_before_year(y) == 365 * (y - 1) + ((y - 1) \div 4) - ((y - 1) \div 100) + ((y - 1) \div 400)

RECURSIVE days_before_month(_, _)
days_before_month(y, m) ==
  IF m <= 1 THEN 0 ELSE days_before_month(y, m - 1) + days_in_month(y, m - 1)

toordinal(dt) == days_before_year(dt.y) + days_before_month(dt.y, dt.m) + dt.d

\* date.weekday(): Monday is 0, Sunday is 6
weekday(dt) == (toordinal(dt) + 6) % 7

\* date + timedelta(days=n) for small n >= 0
RECURSIVE add_days(_, _)
add_days(dt, n) ==
  IF n = 0 THEN dt
  ELSE IF dt.d < days_in_month(dt.y, dt.m) THEN add_days([dt EXCEPT !.d = @ + 1], n - 1)
  ELSE IF dt.m < 12 THEN add_days([dt EXCEPT !.m = @ + 1, !.d = 1], n - 1)
  ELSE add_days([dt EXCEPT !.y = @ + 1, !.m = 1, !.d = 1], n - 1)

\* date.replace(year=y): ok = FALSE when it raises ValueError (29.02 in a
\* year that is not a leap year)
replace_year(dt, y) ==
  IF valid_date(y, dt.m, dt.d) THEN [dt EXCEPT !.y = y] ELSE NoDate

\* a number as decimal digits, zero-padded to `width`
RECURSIVE digits(_, _)
digits(n, width) ==
  IF width = 0 THEN <<>>
  ELSE digits(n \div 10, width - 1) \o <<CHOOSE c \in AsciiDigits : DigitVal[c] = n % 10>>

\* date.strftime('%d.%m.%Y')
strftime(dt) == digits(dt.d, 2) \o <<".">> \o digits(dt.m, 2) \o <<".">> \o digits(dt.y, 4)

\* shift_weekend moving a Sunday by two days
shift_weekend_SundayToTuesday(dt) ==
  IF weekday(dt) \in {5, 6} THEN add_days(dt, 2) ELSE dt

\* lines 308-311: a Saturday moves to the Monday after it, a Sunday too
shift_weekend(dt) ==
  IF weekday(dt) = 5 THEN add_days(dt, 2)
  ELSE IF weekday(dt) = 6 THEN add_days(dt, 1)
  ELSE dt

\* lines 304-305: this year's date moves to next year when it is before today
roll_over(this_year, now) ==
  IF this_year.ok /\ date_lt(this_year, now) THEN replace_year(this_year, now.y + 1)
  ELSE this_year

\* lines 302-305: birthday_this_year; ok = FALSE when strptime or replace
\* raised ValueError
next_occurrence(birthday_date, now) ==
  IF birthday_date.ok THEN roll_over(replace_year(birthday_date, now.y), now) ELSE NoDate

\* entry_of with the last day of the window left out
entry_of_ExclusiveEnd(name, birthday_this_year, now, days) ==
  IF /\ birthday_this_year.ok
     /\ ~date_lt(birthday_this_year, now)
     /\ toordinal(birthday_this_year) < toordinal(now) + days
  THEN [listed |-> TRUE, name |-> name, date |-> shift_weekend(birthday_this_year)]
  ELSE [listed |-> FALSE, name |-> name, date |-> NoDate]

\* lines 306-312: `listed` tells whether the record is appended, `date` is
\* the congratulation date
entry_of(name, birthday_this_year, now, days) ==
  IF /\ birthday_this_year.ok
     /\ ~date_lt(birthday_this_year, now)
     /\ toordinal(birthday_this_year) <= toordinal(now) + days
  THEN [listed |-> TRUE, name |-> name, date |-> shift_weekend(birthday_this_year)]
  ELSE [listed |-> FALSE, name |-> name, date |-> NoDate]

\* the body of the loop of get_upcoming_birthdays for one record
upcoming_entry(record, now, days) ==
  IF record.birthday.set
  THEN entry_of(record.name, next_occurrence(strptime(record.birthday.value), now), now, days)
  ELSE [listed |-> FALSE, name |-> record.name, date |-> NoDate]

\* line 312: the string appended for an entry
format_entry(e) ==
  [name |-> e.name, date |-> e.date, text |-> e.name \o <<":", " ">> \o strftime(e.date)]

is_listed(e) == e.listed

\* AddressBook.get_upcoming_birthdays: the entries appended, in dict order;
\* `text` is the string of the entry, `date` the date it was formatted from
AddressBook_get_upcoming_birthdays(b, now, days) ==
  Map(format_entry, SelectSeq([i \in 1..Len(b) |-> upcoming_entry(b[i], now, days)], is_listed))

\* ------------------------------------------------------------------------
\* Command functions.  Each yields what the undecorated function returns or
\* raises (ret) and the book it leaves behind (book); input_error turns the
\* exception into the returned text.
\* ------------------------------------------------------------------------
Out(ret, b) == [ret |-> ret, book |-> b]

\* format_address
format_word(word) ==
  IF endswith(lower(word), <<".">>) /\ Len(word) <= 4 THEN lower(word) ELSE capitalize(word)

format_address(address) == join(<<" ">>, Map(format_word, split_ws(address, <<>>)))

\* arg.isdigit() and len(arg) == 10
is_phone_token(arg) == isdigit(arg) /\ Len(arg) = 10

\* phone_run collecting no token
phone_run_Empty(args, i) == <<>>

\* the run of phone tokens that starts at position i (add_contact, lines 467-471)
RECURSIVE phone_run(_, _)
phone_run(args, i) ==
  IF i <= Len(args) /\ is_phone_token(args[i]) THEN <<args[i]>> \o phone_run(args, i + 1)
  ELSE <<>>

\* the loop of add_contact over the phones without the `if result: return result`
RECURSIVE add_phones_IgnoreResult(_, _, _)
add_phones_IgnoreResult(record, phones, b) ==
  IF phones = <<>> THEN [ret |-> Ret("None", <<>>), rec |-> record]
  ELSE add_phones_IgnoreResult(Record_add_phone(record, 0, phones[1], b).rec, Tail(phones), b)

\* for phone in phones: result = record.add_phone(phone, book); if result: return result
RECURSIVE add_phones(_, _, _)
add_phones(record, phones, b) ==
  IF phones = <<>> THEN [ret |-> Ret("None", <<>>), rec |-> record]
  ELSE LET r == Record_add_phone(record, 0, phones[1], b) IN
       IF r.ret.kind # "None" THEN r ELSE add_phones(r.rec, Tail(phones), b)

\* the last token with "@" (add_contact, lines 482-488); <<>> when there is none
RECURSIVE last_email(_, _)
last_email(rest, email) ==
  IF rest = <<>> THEN email
  ELSE last_email(Tail(rest), IF contains(rest[1], "@") THEN rest[1] ELSE email)

add_contact(args, b) ==
  IF Len(args) < 2 THEN Out(Raise("IndexError", "usage"), b)
  ELSE IF ~(\E i \in 1..Len(args) : is_phone_token(args[i]))
       THEN Out(Raise("ValueError", "need_valid_phone"), b)
  ELSE
    LET phone_start_index == FirstIndex(args, is_phone_token)
        name_parts == SubSeq(args, 1, phone_start_index - 1)
        name == normalize_name(join_args(name_parts))
        phones == phone_run(args, phone_start_index)
        added == add_phones(Record_init(name), phones, b)
        rest == SubSeq(args, phone_start_index + Len(phones), Len(args))
        email == last_email(rest, <<>>)
        address_parts == SelectSeq(rest, LAMBDA a : ~contains(a, "@"))
        with_email == IF email # <<>> THEN Record_add_email(added.rec, strip(email))
                      ELSE [ret |-> Ret("None", <<>>), rec |-> added.rec]
        record == IF address_parts # <<>>
                  THEN Record_add_address(with_email.rec,
                                          format_address(strip(join_args(address_parts))))
                  ELSE with_email.rec
    IN IF name_parts = <<>> THEN Out(Raise("ValueError", "name_missing"), b)
       ELSE IF AddressBook_name_exists(b, name) THEN Out(Ret("name_already_exists", name), b)
       ELSE IF added.ret.kind # "None" THEN Out(added.ret, b)
       ELSE IF with_email.ret.exc # "" THEN Out(with_email.ret, b)
       ELSE Out(Ret("contact_added", <<>>), AddressBook_add_record(b, record))

scan_name_LongestPrefix(args, b, lo, hi) ==
  LET hits == {i \in lo..hi :
                 AddressBook_name_exists(b, normalize_name(join_args(SubSeq(args, 1, i))))}
  IN IF hits = {} THEN 0 ELSE CHOOSE i \in hits : \A k \in hits : i >= k

\* for i in range(lo, hi + 1): if book.name_exists(normalize_name(" ".join(args[:i]))): break
\* the i of the break, 0 when the loop runs out (the for ... else branch)
scan_name(args, b, lo, hi) ==
  LET hits == {i \in lo..hi :
                 AddressBook_name_exists(b, normalize_name(join_args(SubSeq(args, 1, i))))}
  IN IF hits = {} THEN 0 ELSE CHOOSE i \in hits : \A k \in hits : i <= k

edit_contact_name(args, b) ==
  IF Len(args) < 2 THEN Out(Raise("IndexError", "usage"), b)
  ELSE
    LET i == scan_name(args, b, 1, Len(args) - 1) IN
    IF i = 0 THEN Out(Raise("KeyError", "contact_not_found"), b)
    ELSE
      LET old_name == normalize_name(join_args(SubSeq(args, 1, i)))
          new_name == normalize_name(join_args(SubSeq(args, i + 1, Len(args))))
          record == b[AddressBook_find(b, old_name)]
          deleted == AddressBook_delete(b, old_name).book
      IN Out(Ret("name_changed", new_name),
             AddressBook_add_record(deleted, [record EXCEPT !.name = new_name]))

change_contact(args, b) ==
  IF Len(args) < 3 THEN Out(Raise("IndexError", "usage"), b)
  ELSE
    LET old_phone == args[Len(args) - 1]
        new_phone == args[Len(args)]
        name == normalize_name(join_args(SubSeq(args, 1, Len(args) - 2)))
        idx == AddressBook_find(b, name)
    IN IF idx = 0 THEN Out(Raise("KeyError", "contact_not_found"), b)
       ELSE LET r == Record_edit_phone(b[idx], idx, old_phone, new_phone, b) IN
            IF r.ret.kind # "None" THEN Out(r.ret, b)
            ELSE Out(Ret("phone_updated", <<>>), [b EXCEPT ![idx] = r.rec])

add_phone_to_contact(args, b) ==
  IF Len(args) < 2 THEN Out(Raise("IndexError", "usage"), b)
  ELSE
    LET possible_phone == args[Len(args)]
        name == normalize_name(join_args(SubSeq(args, 1, Len(args) - 1)))
        idx == AddressBook_find(b, name)
    IN IF idx = 0 THEN Out(Raise("KeyError", "contact_not_found"), b)
       ELSE LET r == Record_add_phone(b[idx], idx, possible_phone, b) IN
            IF r.ret.kind # "None" THEN Out(r.ret, b)
            ELSE Out(Ret("phone_added", <<>>), [b EXCEPT ![idx] = r.rec])

remove_phone(args, b) ==
  IF Len(args) < 2 THEN Out(Raise("IndexError", "usage"), b)
  ELSE
    LET possible_phone == args[Len(args)]
        name == normalize_name(join_args(SubSeq(args, 1, Len(args) - 1)))
        idx == AddressBook_find(b, name)
    IN IF idx = 0 THEN Out(Raise("KeyError", "contact_not_found"), b)
       ELSE LET r == Record_remove_phone(b[idx], possible_phone) IN
            IF ~r.ret THEN Out(Ret("phone_not_found", possible_phone), b)
            ELSE Out(Ret("phone_removed", <<>>), [b EXCEPT ![idx] = r.rec])

remove_contact(args, b) ==
  IF args = <<>> THEN Out(Raise("IndexError", "usage"), b)
  ELSE
    LET name == normalize_name(join_args(args))
        d == AddressBook_delete(b, name)
    IN IF ~d.ret THEN Out(Raise("KeyError", "contact_not_found"), b)
       ELSE Out(Ret("contact_removed", name), d.book)

\* add_birthday assigning the birthday string before Birthday() validates it
add_birthday_StoresBeforeValidating(args, b, now) ==
  IF Len(args) < 2 THEN Out(Raise("IndexError", "usage"), b)
  ELSE
    LET name == normalize_name(join_args(SubSeq(args, 1, Len(args) - 1)))
        birthday == args[Len(args)]
        idx == AddressBook_find(b, name)
    IN IF ~strptime(birthday).ok THEN Out(Ret("bday_invalid_format_example", <<>>), b)
       ELSE IF idx = 0 THEN Out(Raise("KeyError", "contact_not_found"), b)
       ELSE IF b[idx].birthday.set THEN Out(Ret("bday_already_set", <<>>), b)
       ELSE LET r == Record_add_birthday(b[idx], birthday, now) IN
            IF r.ret.exc # "" THEN Out(r.ret, [b EXCEPT ![idx].birthday = Field(birthday)])
            ELSE Out(Ret("bday_added", <<>>), [b EXCEPT ![idx] = r.rec])

add_birthday(args, b, now) ==
  IF Len(args) < 2 THEN Out(Raise("IndexError", "usage"), b)
  ELSE
    LET name == normalize_name(join_args(SubSeq(args, 1, Len(args) - 1)))
        birthday == args[Len(args)]
        idx == AddressBook_find(b, name)
    IN IF ~strptime(birthday).ok THEN Out(Ret("bday_invalid_format_example", <<>>), b)
       ELSE IF idx = 0 THEN Out(Raise("KeyError", "contact_not_found"), b)
       ELSE IF b[idx].birthday.set THEN Out(Ret("bday_already_set", <<>>), b)
       ELSE LET r == Record_add_birthday(b[idx], birthday, now) IN
            IF r.ret.exc # "" THEN Out(r.ret, b)
            ELSE Out(Ret("bday_added", <<>>), [b EXCEPT ![idx] = r.rec])

edit_birthday(args, b, now) ==
  IF Len(args) < 2 THEN Out(Raise("IndexError", "usage"), b)
  ELSE
    LET name == normalize_name(join_args(SubSeq(args, 1, Len(args) - 1)))
        birthday == args[Len(args)]
        idx == AddressBook_find(b, name)
    IN IF idx = 0 THEN Out(Raise("KeyError", "contact_not_found"), b)
       ELSE LET r == Record_edit_birthday(b[idx], birthday, now) IN
            IF r.ret.exc # "" THEN Out(r.ret, b)
            ELSE Out(Ret("bday_updated", <<>>), [b EXCEPT ![idx] = r.rec])

remove_birthday(args, b) ==
  IF args = <<>> THEN Out(Raise("IndexError", "usage"), b)
  ELSE
    LET name == normalize_name(join_args(args))
        idx == AddressBook_find(b, name)
    IN IF idx = 0 THEN Out(Raise("KeyError", "contact_not_found"), b)
       ELSE Out(Ret("bday_removed", <<>>), [b EXCEPT ![idx] = Record_remove_birthday(b[idx])])

add_address(args, b) ==
  IF Len(args) < 2 THEN Out(Raise("IndexError", "usage"), b)
  ELSE
    LET i == scan_name(args, b, 1, Len(args) - 1) IN
    IF i = 0 THEN Out(Ret("contact_not_found", <<>>), b)
    ELSE
      LET name == normalize_name(join_args(SubSeq(args, 1, i)))
          address == title(join_args(SubSeq(args, i + 1, Len(args))))
          idx == AddressBook_find(b, name)
      IN IF b[idx].address.set THEN Out(Ret("address_already_exists", <<>>), b)
         ELSE Out(Ret("address_added", <<>>), [b EXCEPT ![idx] = Record_add_address(b[idx], address)])

edit_address(args, b) ==
  IF Len(args) < 2 THEN Out(Raise("IndexError", "usage"), b)
  ELSE
    LET i == scan_name(args, b, 1, Len(args) - 1) IN
    IF i = 0 THEN Out(Ret("contact_not_found", <<>>), b)
    ELSE
      LET name == normalize_name(join_args(SubSeq(args, 1, i)))
          new_address == title(join_args(SubSeq(args, i + 1, Len(args))))
          idx == AddressBook_find(b, name)
      IN Out(Ret("address_updated", <<>>), [b EXCEPT ![idx] = Record_edit_address(b[idx], new_address)])

remove_address(args, b) ==
  IF args = <<>> THEN Out(Raise("IndexError", "usage"), b)
  ELSE
    LET name == normalize_name(join_args(args))
        idx == AddressBook_find(b, name)
    IN IF idx = 0 THEN Out(Raise("KeyError", "contact_not_found"), b)
       ELSE IF ~b[idx].address.set THEN Out(Ret("address_is_not_set", <<>>), b)
       ELSE Out(Ret("address_removed", <<>>), [b EXCEPT ![idx] = Record_remove_address(b[idx])])

add_email(args, b) ==
  IF Len(args) < 2 THEN Out(Raise("IndexError", "usage"), b)
  ELSE
    LET i == scan_name(args, b, 1, Len(args) - 1) IN
    IF i = 0 THEN Out(Ret("contact_not_found", <<>>), b)
    ELSE
      LET name == normalize_name(join_args(SubSeq(args, 1, i)))
          email == join_args(SubSeq(args, i + 1, Len(args)))
          idx == AddressBook_find(b, name)
          r == Record_add_email(b[idx], email)
      IN IF b[idx].email.set THEN Out(Ret("email_already_exists", <<>>), b)
         ELSE IF r.ret.exc # "" THEN Out(r.ret, b)
         ELSE Out(Ret("email_added", <<>>), [b EXCEPT ![idx] = r.rec])

edit_email(args, b) ==
  IF Len(args) < 2 THEN Out(Raise("IndexError", "usage"), b)
  ELSE
    LET i == scan_name(args, b, 1, Len(args) - 1) IN
    IF i = 0 THEN Out(Ret("contact_not_found", <<>>), b)
    ELSE
      LET name == normalize_name(join_args(SubSeq(args, 1, i)))
          new_email == join_args(SubSeq(args, i + 1, Len(args)))
          idx == AddressBook_find(b, name)
          r == Record_edit_email(b[idx], new_email)
      IN IF r.ret.kind # "None" THEN Out(r.ret, b)
         ELSE Out(Ret("email_updated", <<>>), [b EXCEPT ![idx] = r.rec])

remove_email(args, b) ==
  IF args = <<>> THEN Out(Raise("IndexError", "usage"), b)
  ELSE
    LET i == scan_name(args, b, 1, Len(args)) IN
    IF i = 0 THEN Out(Ret("provide_valid_name", <<>>), b)
    ELSE
      LET name == normalize_name(join_args(SubSeq(args, 1, i)))
          idx == AddressBook_find(b, name)
      IN IF idx = 0 THEN Out(Ret("contact_not_found", <<>>), b)
         ELSE IF ~b[idx].email.set THEN Out(Ret("email_is_not_set", <<>>), b)
         ELSE Out(Ret("email_removed", <<>>), [b EXCEPT ![idx] = Record_remove_email(b[idx])])

\* the record at position idx with its notes replaced
with_notes(b, idx, notes) == [b EXCEPT ![idx].notes = notes]

add_note(args, b) ==
  IF Len(args) < 2 THEN Out(Raise("IndexError", "usage"), b)
  ELSE
    LET i == scan_name(args, b, 1, Len(args) - 1) IN
    IF i = 0 THEN Out(Ret("contact_not_found", <<>>), b)
    ELSE
      LET name == normalize_name(join_args(SubSeq(args, 1, i)))
          note_text == join_args(SubSeq(args, i + 1, Len(args)))
          tags == extract_tags_from_text(note_text)
          clean_text == strip(sub_tags(note_text))
          idx == AddressBook_find(b, name)
          r == Record_add_note(b[idx], clean_text, tags)
      IN IF r.ret.exc # "" THEN Out(r.ret, b)
         ELSE IF r.ret.kind = "None" THEN Out(Ret("note_already_exists", <<>>), b)
         ELSE Out(Ret("note_added", <<>>), [b EXCEPT ![idx] = r.rec])

\* edit_note, lines 817-828: the first j whose joined prefix is the text of a
\* note of the record; 0 when the loop runs out
scan_old_note(record, remaining) ==
  LET hits == {j \in 1..(Len(remaining) - 1) :
                 \E k \in 1..Len(record.notes) :
                    note_key(record.notes[k]) = lower(strip(join_args(SubSeq(remaining, 1, j))))}
  IN IF hits = {} THEN 0 ELSE CHOOSE j \in hits : \A k \in hits : j <= k

\* edit_note, lines 835-838: every note whose text is the new text gets the tags
retag(notes, clean_new_text, tags) ==
  [k \in 1..Len(notes) |->
     IF note_key(notes[k]) = lower(clean_new_text) /\ tags # <<>>
     THEN [notes[k] EXCEPT !.tags = Range(tags)]
     ELSE notes[k]]

edit_note(args, b) ==
  IF Len(args) < 3 THEN Out(Raise("IndexError", "usage"), b)
  ELSE
    LET i == scan_name(args, b, 1, Len(args) - 1) IN
    IF i = 0 THEN Out(Ret("provide_name_old_new", <<>>), b)
    ELSE
      LET name == normalize_name(join_args(SubSeq(args, 1, i)))
          idx == AddressBook_find(b, name)
          remaining == SubSeq(args, i + 1, Len(args))
          j == scan_old_note(b[idx], remaining)
      IN IF j = 0 THEN Out(Ret("old_note_not_found", <<>>), b)
         ELSE
           LET old_text == join_args(SubSeq(remaining, 1, j))
               new_text == join_args(SubSeq(remaining, j + 1, Len(remaining)))
               tags == extract_tags_from_text(new_text)
               clean_new_text == strip(sub_tags(new_text))
               r == Record_edit_note(b[idx], old_text, clean_new_text)
           IN IF r.ret.exc # "" THEN Out(r.ret, b)
              ELSE IF r.ret.kind = "note_edited"
                   THEN Out(Ret("note_updated", <<>>),
                            with_notes(b, idx, retag(r.rec.notes, clean_new_text, tags)))
              ELSE Out(r.ret, b)

remove_note(args, b) ==
  IF args = <<>> THEN Out(Raise("IndexError", "usage"), b)
  ELSE
    LET i == scan_name(args, b, 1, Len(args)) IN
    IF i = 0 THEN Out(Ret("provide_name_and_note", <<>>), b)
    ELSE
      LET name == normalize_name(join_args(SubSeq(args, 1, i)))
          idx == AddressBook_find(b, name)
          note_text == strip(join_args(SubSeq(args, i + 1, Len(args))))
          r == Record_remove_note(b[idx], note_text)
      IN IF note_text = <<>>
         THEN IF b[idx].notes = <<>> THEN Out(Ret("no_notes_to_remove", name), b)
              ELSE Out(Ret("all_notes_removed", name), with_notes(b, idx, <<>>))
         \* record.remove_note returns a non-empty str in both cases, so the
         \* `if` at line 860 always takes its first branch
         ELSE Out(Ret("note_removed", <<>>), [b EXCEPT ![idx] = r.rec])

add_tag_to_note(args, b) ==
  IF Len(args) < 3 THEN Out(Raise("IndexError", "usage"), b)
  ELSE
    LET i == scan_name(args, b, 1, Len(args) - 2) IN
    IF i = 0 THEN Out(Ret("provide_name_note_tag", <<>>), b)
    ELSE
      LET name == normalize_name(join_args(SubSeq(args, 1, i)))
          idx == AddressBook_find(b, name)
          note_text == join_args(SubSeq(args, i + 1, Len(args) - 1))
          tag == lower(lstrip_hash(args[Len(args)]))
          notes == b[idx].notes
          hit(n) == note_key(n) = lower(strip(note_text))
      IN IF ~(\E k \in 1..Len(notes) : hit(notes[k]))
         THEN Out(Ret("note_not_found_be_exact", <<>>), b)
         ELSE LET k == FirstIndex(notes, hit) IN
              IF tag \in notes[k].tags THEN Out(Ret("tag_already_present", tag), b)
              ELSE IF ~TAG_PATTERN(tag_clean(tag)) THEN Out(Ret("invalid_tag", <<>>), b)
              ELSE Out(Ret("tag_added", tag),
                       with_notes(b, idx, [notes EXCEPT ![k].tags = @ \cup {tag_clean(tag)}]))

search_tag_NoMatch(s) == <<>>

\* re.search(r"#\w+", s): the first match without its '#', <<>> for no match
search_tag(s) == IF findall_tags(s) = <<>> THEN <<>> ELSE findall_tags(s)[1]

remove_tag_from_note(args, b) ==
  IF Len(args) < 2 THEN Out(Raise("IndexError", "usage"), b)
  ELSE
    LET i == scan_name(args, b, 1, Len(args)) IN
    IF i = 0 THEN Out(Ret("provide_name_note_tag_to_remove", <<>>), b)
    ELSE
      LET name == normalize_name(join_args(SubSeq(args, 1, i)))
          rest_args == SubSeq(args, i + 1, Len(args))
          full_text == join_args(rest_args)
          tag_to_remove == lower(search_tag(full_text))
          note_text == strip(sub_tags(full_text))
          idx == AddressBook_find(b, name)
          notes == b[idx].notes
          hit(n) == note_key(n) = lower(note_text)
      IN IF rest_args = <<>> THEN Out(Ret("provide_note_and_tag", <<>>), b)
         ELSE IF ~(\E k \in 1..Len(notes) : hit(notes[k]))
              THEN Out(Ret("provide_note_and_tag_for", name), b)
         ELSE LET k == FirstIndex(notes, hit) IN
              IF tag_to_remove # <<>>
              THEN IF tag_to_remove \in notes[k].tags
                   THEN Out(Ret("tag_removed", tag_to_remove),
                            with_notes(b, idx, [notes EXCEPT ![k].tags = @ \ {tag_to_remove}]))
                   ELSE Out(Ret("tag_not_found", tag_to_remove), b)
              ELSE IF notes[k].tags # {}
                   THEN Out(Ret("all_tags_removed", <<>>),
                            with_notes(b, idx, [notes EXCEPT ![k].tags = {}]))
                   ELSE Out(Ret("note_has_no_tags", <<>>), b)

\* ---- the commands that only read the book ----
\* the records whose key contains the name (show_birthday, show_phone)
name_matches(b, name) ==
  LET has(r) == infix(lower(name), lower(r.name)) IN SelectIdx(b, has)

show_birthday(args, b) ==
  IF args = <<>> THEN Out(Raise("IndexError", "usage"), b)
  ELSE
    LET name == normalize_name(join_args(args))
        matches == name_matches(b, name)
    IN IF matches = <<>> THEN Out(Raise("KeyError", ""), b)
       ELSE IF Len(matches) = 1
            THEN IF b[matches[1]].birthday.set
                 THEN Out(Ret("birthday_of", b[matches[1]].birthday.value), b)
                 ELSE Out(Ret("birthday_is_not_set", <<>>), b)
       ELSE IF \A k \in 1..Len(matches) : ~b[matches[k]].birthday.set
            THEN Out(Ret("none_have_birthday", <<>>), b)
       \* line 605 reads record.birthday.value of every match
       ELSE IF \E k \in 1..Len(matches) : ~b[matches[k]].birthday.set
            THEN Out(Raise("AttributeError", "NoneType_has_no_attribute_value"), b)
       ELSE Out(Ret("multiple_contacts_found",
                    [k \in 1..Len(matches) |-> b[matches[k]].birthday.value]), b)

show_phone(args, b) ==
  IF args = <<>> THEN Out(Raise("IndexError", "usage"), b)
  ELSE
    LET name == normalize_name(join_args(args))
        matches == name_matches(b, name)
    IN IF matches = <<>> THEN Out(Raise("KeyError", ""), b)
       ELSE IF Len(matches) = 1 THEN Out(Ret("phones_of", b[matches[1]].phones), b)
       ELSE Out(Ret("multiple_contacts_found",
                    [k \in 1..Len(matches) |-> b[matches[k]].phones]), b)

search_contacts(args, b) ==
  IF args = <<>> THEN Out(Raise("IndexError", "usage"), b)
  ELSE
    LET query == lower(args[1])
        results == AddressBook_search(b, query)
    IN IF query \in {<<"n","o","t","e">>, <<"n","o","t","e","s">>}
       THEN Out(Ret("use_searchnote", <<>>), b)
       ELSE IF query = <<"e","m","a","i","l">> THEN Out(Ret("try_part_of_email", <<>>), b)
       ELSE IF query = <<"a","d","d","r","e","s","s">> THEN Out(Ret("try_part_of_address", <<>>), b)
       ELSE IF query \in {<<"b","i","r","t","h","d","a","y">>, <<"b","d","a","y">>,
                          <<"b","i","r","t","h">>}
            THEN Out(Ret("use_a_real_date", <<>>), b)
       ELSE IF results = <<>> THEN Out(Ret("no_matches_found", <<>>), b)
       ELSE Out(Ret("matches", [k \in 1..Len(results) |-> b[results[k]].name]), b)

upcoming_birthdays(args, b, now) ==
  IF args # <<>> THEN Out(Raise("IndexError", "usage"), b)
  ELSE LET upcoming == AddressBook_get_upcoming_birthdays(b, now, 7) IN
       IF upcoming = <<>> THEN Out(Ret("no_upcoming_birthdays", <<>>), b)
       ELSE Out(Ret("upcoming", upcoming), b)

\* the exception classes `except Exception` catches, of those the commands raise
ExceptionSubclasses == {"ValueError", "KeyError", "IndexError", "AttributeError"}

\* the (name, note) pairs of the book, in the order of `for record in
\* book.values(): for note in record.notes`
RECURSIVE all_notes(_)
all_notes(b) ==
  IF b = <<>> THEN <<>>
  ELSE [k \in 1..Len(b[1].notes) |-> [name |-> b[1].name, note |-> b[1].notes[k]]]
         \o all_notes(Tail(b))

search_note(args, b) ==
  IF args = <<>> THEN Out(Raise("IndexError", "usage"), b)
  ELSE
    LET query == lower(join_args(args))
        hit(e) == infix(query, lower(e.name)) \/ infix(query, lower(e.note.text))
        matches == Range(SelectSeq(all_notes(b), hit))
    IN IF matches = {} THEN Out(Ret("no_notes_found", <<>>), b)
       ELSE Out(Ret("notes_found", matches), b)

search_note_by_tag(args, b) ==
  IF args = <<>> THEN Out(Raise("IndexError", "usage"), b)
  ELSE
    LET tag == lower(lstrip_hash(args[1]))
        has_tag(e) == tag \in e.note.tags
        matches == SelectSeq(all_notes(b), has_tag)
    IN IF matches = <<>> THEN Out(Ret("no_notes_with_tag", tag), b)
       ELSE Out(Ret("notes_with_tag", matches), b)

\* sort_note_by_tag: the tags of the listing (it takes no account of args)
sort_note_by_tag(args, b) ==
  LET tagged(e) == e.note.tags # {}
      tag_map == UNION {e.note.tags : e \in Range(SelectSeq(all_notes(b), tagged))}
  IN IF tag_map = {} THEN Out(Ret("no_tagged_notes", <<>>), b)
     ELSE Out(Ret("notes_by_tag", tag_map), b)

input_error_NoCatchAll(ret) ==
  IF ret.exc = "" THEN [kind |-> ret.kind, info |-> ret.info]
  ELSE IF ret.exc = "ValueError" THEN [kind |-> ret.kind, info |-> ret.info]
  ELSE IF ret.exc = "KeyError" THEN [kind |-> "contact_not_found", info |-> <<>>]
  ELSE IF ret.exc = "IndexError" THEN [kind |-> "usage", info |-> <<>>]
  ELSE [kind |-> "Traceback", info |-> ret.exc]

\* input_error.inner: the text the decorated command returns; an exception
\* that no clause caught would leave main() with a traceback
input_error(ret) ==
  IF ret.exc = "" THEN [kind |-> ret.kind, info |-> ret.info]
  ELSE IF ret.exc = "ValueError" THEN [kind |-> ret.kind, info |-> ret.info]
  ELSE IF ret.exc = "KeyError" THEN [kind |-> "contact_not_found", info |-> <<>>]
  ELSE IF ret.exc = "IndexError" THEN [kind |-> "usage", info |-> <<>>]
  ELSE IF ret.exc \in ExceptionSubclasses
       THEN [kind |-> "something_went_wrong", info |-> ret.kind]
  ELSE [kind |-> "Traceback", info |-> ret.exc]

\* ------------------------------------------------------------------------
\* The session: main() reads a line, dispatches it to the command function
\* and prints what it returns
\* ------------------------------------------------------------------------
VARIABLES
  book,    \* the AddressBook
  today,   \* datetime.today().date()
  cmd,     \* the last command dispatched ("" before the first)
  args,    \* its argument tokens
  result,  \* the text it returned
  prev     \* the book as it was when the command was dispatched

vars == <<book, today, cmd, args, result, prev>>

\* ---- the tokens typed in the explored sessions ----
tIvan == <<"i","v","a","n">>
tIVAN == <<"I","V","A","N">>
tPetrov == <<"p","e","t","r","o","v">>
tPetro == <<"P","e","t","r","o">>

P1 == <<"0","9","8","7","6","5","4","3","2","1">>
P2 == <<"0","5","0","1","1","1","2","2","3","3">>
P3 == <<"0","6","6","1","2","3","4","5","6","7">>
PBadCode == <<"0","1","2","3","4","5","6","7","8","9">>
PShort == <<"0","9","8","7","6">>

\* names given to addcontact, and names given to the commands that look a
\* contact up (an upper-case spelling and a name that is never added)
ContactNames == { <<tIvan>>, <<tIvan, tPetrov>> }

LookupNames == { <<tIVAN>>, <<tIvan, tPetrov>> }

UnknownName == <<tPetro>>

ValidPhoneInputs == { P1, P2, P3 }

PhoneInputs == ValidPhoneInputs \cup { PBadCode, PShort }

PhoneListInputs == { <<P1>>, <<P2>>, <<P1, P2>>, <<P1, P1>> }

AddContactInputs ==
  {n \o ps : n \in ContactNames, ps \in PhoneListInputs}
    \cup { <<>>, <<tIvan>>, <<tIvan, PShort>>, <<P1, P2>>, <<tIVAN, P3>>,
           <<tIvan, P2, PBadCode>>, <<tIvan, tPetrov, P3, PBadCode>> }

AddPhoneInputs ==
  {<<tIVAN, p>> : p \in PhoneInputs}
    \cup { <<tIvan, tPetrov, P1>>, <<tIvan, tPetrov, P3>>, <<P1>>, Append(UnknownName, P1) }

ChangePhoneInputs ==
  {<<tIVAN, old, new>> : old \in {P1, P2}, new \in ValidPhoneInputs \cup {PBadCode}}
    \cup { <<tIvan, tPetrov, P2, P1>>, <<tIvan, tPetrov, P2, P3>>,
           <<P1, P2>>, UnknownName \o <<P1, P2>> }

RemovePhoneInputs ==
  {<<tIVAN, p>> : p \in ValidPhoneInputs}
    \cup { <<tIvan, tPetrov, P2>>, <<tIvan>>, Append(UnknownName, P1) }

EditNameInputs ==
  { <<tIvan, tIvan, tPetrov>>, <<tIVAN, tIvan>>, <<tPetro, tIvan>>, <<tIvan>> }

RemoveContactInputs == LookupNames \cup { UnknownName, <<>> }

\* ---- tokens of the sessions on contact names ----
tDotI == <<"U+0130">>
tIDot == <<"i", "U+0307">>

NameContactInputs ==
  { <<tIvan, P1>>, <<tIVAN, P2>>, <<tPetro, P2>>, <<tIvan, tPetrov, P2>>,
    <<tDotI, P1>>, <<tIDot, P2>>, <<tIvan>> }

NameEditInputs ==
  { <<tIvan, tPetro>>, <<tIVAN, tIvan>>, <<tIvan, tIvan, tPetrov>>, <<tPetro, tIDot>>,
    <<tDotI, tPetro>>, <<tPetrov, tIvan>>, <<tIvan>> }

NameRemoveInputs == { <<tIVAN>>, <<tPetro>>, <<tIDot>>, <<tIvan, tPetrov>>, <<>> }

\* ---- tokens of the sessions on the email and the birthday ----
E1 == <<"a","@","b",".","c">>
E2 == <<"i","-","v","@","u",".","a">>
ENoDot == <<"a","@","b">>
ENoAt == <<"a","b",".","c">>

B1 == <<"1","5",".","0","5",".","1","9","9","0">>
BToday == <<"1","0",".","0","5",".","2","0","2","5">>
BFuture == <<"1","1",".","0","5",".","2","0","2","5">>
BOld == <<"3","1",".","1","2",".","1","9","2","9">>
BDashes == <<"1","9","9","0","-","0","5","-","1","5">>
BNoSuchDay == <<"3","1",".","0","2",".","2","0","0","0">>

ValidEmailInputs == { E1, E2 }

InvalidEmailInputs == { ENoDot, ENoAt }

ValidBirthdayInputs == { B1, BToday }

InvalidBirthdayInputs == { BFuture, BOld, BDashes, BNoSuchDay }

FieldContactInputs == { <<tIvan, P1>>, <<tIvan, tPetrov, P2>>, <<tIvan, P1, E1>>, <<tIvan, P1, ENoDot>> }

EmailInputs ==
  {Append(n, e) : n \in LookupNames, e \in ValidEmailInputs \cup InvalidEmailInputs}
    \cup { <<tIvan>>, Append(UnknownName, E1) }

BirthdayInputs ==
  {Append(n, d) : n \in LookupNames, d \in ValidBirthdayInputs \cup InvalidBirthdayInputs}
    \cup { <<tIvan>>, Append(UnknownName, B1) }

RemoveFieldInputs == LookupNames \cup { UnknownName, <<>> }

\* ---- tokens of the sessions on notes and tags ----
tCall == <<"c","a","l","l">>
tCALL == <<"C","A","L","L">>
tMeeting == <<"m","e","e","t">>
tZzz == <<"z","z","z">>
tagUrgent == <<"#","U","r","g">>
tagX == <<"#","x">>
tagDash == <<"#","x","-","y">>
tagArabic == <<"#","t","U+0663">>

NoteContactInputs == { <<tIvan, P1>> }

AddNoteInputs ==
  { <<tIvan, tCall>>, <<tIVAN, tMeeting>>, <<tIvan, tCall, tagUrgent>>,
    <<tIvan, tMeeting, tagUrgent, tagX>>, <<tIvan, tCALL, tagX>>,
    <<tIvan, tCall, tagArabic>>, <<tIvan>>, <<tPetro, tCall>> }

EditNoteInputs ==
  { <<tIvan, tCall, tMeeting>>, <<tIvan, tMeeting, tCall, tagUrgent>>,
    <<tIVAN, tCall, tCall, tagX>>,
    <<tIvan, tZzz, tCall>>, <<tIvan, tCall>>, <<tPetro, tCall, tMeeting>> }

RemoveNoteInputs ==
  { <<tIvan, tCall>>, <<tIvan, tMeeting, tagUrgent>>, <<tIVAN>>, <<tIvan, tZzz>>,
    <<tPetro, tCall>>, <<>> }

AddTagInputs ==
  { <<tIvan, tCall, tagUrgent>>, <<tIvan, tMeeting, tagX>>, <<tIvan, tCall, tagDash>>,
    <<tIvan, tZzz, tagX>>, <<tIvan, tCall>>, <<tPetro, tCall, tagX>> }

RemoveTagInputs ==
  { <<tIvan, tCall, tagUrgent>>, <<tIvan, tCall>>, <<tIvan, tMeeting, tagX>>,
    <<tIVAN, tMeeting>>, <<tIvan, tZzz>>, <<tIvan>>, <<tPetro, tCall>> }

\* ---- the lines of the sessions on the tags of the notes ----
TagInputs ==
  [ addcontact |-> { <<tIvan, P1>> },
    addnote    |-> { <<tIvan, tCall>>, <<tIvan, tMeeting, tagUrgent, tagX>>, <<tIvan, tCall, tagArabic>>,
                     <<tIvan, tCall, tagDash>> },
    editnote   |-> { <<tIvan, tCall, tMeeting, tagArabic>>, <<tIvan, tMeeting, tCall, tagUrgent>>,
                     <<tIvan, tCall, tCall, tagDash>> },
    addtag     |-> { <<tIvan, tCall, tagUrgent>>, <<tIvan, tMeeting, tagArabic>>, <<tIvan, tCall, tagDash>> },
    removetag  |-> { <<tIvan, tCall, tagUrgent>>, <<tIVAN, tMeeting>> } ]

\* ---- the lines of the sessions over the whole command set ----
tKyiv == <<"k","y","i","v">>

SessionInputs ==
  [ addcontact    |-> { <<tIvan, P1>>, <<tIvan, tPetrov, P2>>, <<tPetro, P3, ENoDot>>, <<tIvan>> },
    editname      |-> { <<tIVAN, tIvan>>, <<tPetro, tIvan>>, <<tIvan>> },
    removecontact |-> { <<tIvan>>, <<tPetro>>, <<>> },
    addphone      |-> { <<tIvan, P3>>, <<tIvan, PShort>>, <<tPetro, P1>> },
    changephone   |-> { <<tIvan, P1, P1>>, <<tIvan, P1, PBadCode>>, <<tIvan, P2, P3>> },
    removephone   |-> { <<tIvan, P3>>, <<tIvan, P2>>, <<tIvan>> },
    showphone     |-> { <<tIvan>>, <<tPetro>>, <<>> },
    addbday       |-> { <<tIvan, B1>>, <<tIvan, BFuture>>, <<tIvan, BDashes>>, <<tPetro, B1>> },
    editbday      |-> { <<tIvan, B1>>, <<tIvan, BOld>>, <<tIvan>> },
    removebday    |-> { <<tIvan>>, <<tPetro>> },
    showbday      |-> { <<tIvan>>, <<tPetro>>, <<>> },
    upcomingbdays |-> { <<>>, <<tIvan>> },
    search        |-> { <<tIvan>>, <<tZzz>>, <<>> },
    addemail      |-> { <<tIvan, E1>>, <<tIvan, ENoDot>>, <<tPetro, E1>> },
    editemail     |-> { <<tIvan, E1>>, <<tIvan, ENoAt>>, <<tIvan>> },
    removeemail   |-> { <<tIvan>>, <<tPetro>> },
    addaddress    |-> { <<tIvan, tKyiv>>, <<tPetro, tKyiv>>, <<tIvan>> },
    editaddress   |-> { <<tIvan, tKyiv>>, <<tPetro, tKyiv>> },
    removeaddress |-> { <<tIvan>>, <<tPetro>> },
    addnote       |-> { <<tIvan, tCall, tagX>>, <<tIvan, tCall, tagArabic>>, <<tPetro, tCall>> },
    editnote      |-> { <<tIvan, tCall, tCall>>, <<tIvan, tZzz, tCall>>, <<tIvan, tCall>> },
    removenote    |-> { <<tIvan, tCall>>, <<tPetro, tCall>>, <<>> },
    addtag        |-> { <<tIvan, tCall, tagX>>, <<tIvan, tCall, tagDash>>, <<tIvan, tZzz, tagX>> },
    removetag     |-> { <<tIvan, tCall, tagX>>, <<tIvan, tZzz>>, <<tIvan>> },
    searchnote    |-> { <<tCall>>, <<>> },
    searchtag     |-> { <<tagX>>, <<>> },
    sorttag       |-> { <<>> } ]

\* ---- the lines of the sessions on the name scan: 'ivan' and 'ivan petrov'
\* may both be contacts, and every line starts with both tokens ----
ResolverInputs ==
  [ addcontact    |-> { <<tIvan, P1>>, <<tIvan, tPetrov, P2>> },
    editname      |-> { <<tIvan, tPetrov, tPetro>>, <<tZzz, tPetro>> },
    addaddress    |-> { <<tIvan, tPetrov, tKyiv>>, <<tZzz, tKyiv>> },
    editaddress   |-> { <<tIvan, tPetrov, tKyiv>> },
    addemail      |-> { <<tIvan, tPetrov, E1>>, <<tIvan, tPetrov>> },
    editemail     |-> { <<tIvan, tPetrov, E1>> },
    addnote       |-> { <<tIvan, tPetrov, tCall>>, <<tZzz, tCall>> },
    editnote      |-> { <<tIvan, tPetrov, tCall, tPetrov, tCall>> },
    removenote    |-> { <<tIvan, tPetrov, tCall>>, <<tIvan, tPetrov>> },
    addtag        |-> { <<tIvan, tPetrov, tCall, tagX>>, <<tIvan, tPetrov, tagX>> },
    removetag     |-> { <<tIvan, tPetrov, tCall, tagX>>, <<tIvan, tPetrov>> } ]

TodayInputs == { [ok |-> TRUE, y |-> 2025, m |-> 5, d |-> 10] }

\* ---- the sessions on phone tokens ----
\* ten digits of which the last is ARABIC-INDIC DIGIT THREE, ten characters
\* with a letter, and eleven digits
PArabic == <<"0","5","0","1","1","1","2","2","3","U+0663">>
PLetter == <<"0","9","8","7","6","5","4","a","2","1">>
PLong == <<"0","9","8","7","6","5","4","3","2","1","0">>

PhoneTokenInputs ==
  [ addcontact  |-> { <<tIvan, P1>>, <<tIvan, PArabic>>, <<tPetro, P2>>, <<tPetro, PLetter>> },
    addphone    |-> {<<tIvan, p>> : p \in {P2, P3, PArabic, PBadCode, PShort, PLetter, PLong}},
    changephone |-> { <<tIvan, P1, PArabic>>, <<tIvan, P1, P3>>, <<tIvan, PArabic, P1>> },
    removephone |-> { <<tIvan, P1>>, <<tIvan, PArabic>>, <<tIvan, P3>> } ]

\* ---- the sessions on the birthday scheduler ----
Date(d, m, y) == [ok |-> TRUE, y |-> y, m |-> m, d |-> d]

\* days on which the program runs: a Monday, a Saturday, a Sunday at the end
\* of the year, and the end of February of a plain and of a leap year
SchedulerTodays ==
  { Date(5, 5, 2025), Date(10, 5, 2025), Date(28, 12, 2025), Date(25, 2, 2025), Date(25, 2, 2024) }

SchedulerBirthdays ==
  { Date(9, 5, 1990), Date(10, 5, 1990), Date(11, 5, 1990), Date(12, 5, 1990), Date(15, 5, 1990),
    Date(17, 5, 1990), Date(18, 5, 1990), Date(4, 1, 1990), Date(29, 2, 2000) }

SchedulerInputs ==
  [ addcontact    |-> { <<tIvan, P1>>, <<tPetro, P2>> },
    addbday       |-> {<<tIvan, strftime(dt)>> : dt \in SchedulerBirthdays}
                        \cup { <<tPetro, strftime(Date(11, 5, 1990))>>,
                               <<tPetro, strftime(Date(2, 1, 1990))>> },
    removebday    |-> { <<tIvan>>, <<tPetro>> },
    upcomingbdays |-> { <<>>, <<tIvan>> } ]

\* the explored books stay within the bounds
WithinBounds(b) ==
  /\ Len(b) <= MaxContacts
  /\ \A i \in 1..Len(b) : Len(b[i].phones) <= MaxPhones /\ Len(b[i].notes) <= MaxNotes

\* one command line handled by main(): the command function is called and
\* its result printed
Dispatch(c, a, out) ==
  /\ WithinBounds(out.book)
  /\ book' = out.book
  /\ cmd' = c
  /\ args' = a
  /\ result' = input_error(out.ret)
  /\ prev' = book
  /\ UNCHANGED today

Init ==
  /\ book = <<>>
  /\ today \in TodayInputs
  /\ cmd = ""
  /\ args = <<>>
  /\ result = [kind |-> "", info |-> <<>>]
  /\ prev = <<>>

AddContact(S) == \E a \in S : Dispatch("addcontact", a, add_contact(a, book))

EditName(S) == \E a \in S : Dispatch("editname", a, edit_contact_name(a, book))

RemoveContact(S) == \E a \in S : Dispatch("removecontact", a, remove_contact(a, book))

AddPhone == \E a \in AddPhoneInputs : Dispatch("addphone", a, add_phone_to_contact(a, book))

ChangePhone == \E a \in ChangePhoneInputs : Dispatch("changephone", a, change_contact(a, book))

RemovePhone == \E a \in RemovePhoneInputs : Dispatch("removephone", a, remove_phone(a, book))

AddBirthday == \E a \in BirthdayInputs : Dispatch("addbday", a, add_birthday(a, book, today))

EditBirthday == \E a \in BirthdayInputs : Dispatch("editbday", a, edit_birthday(a, book, today))

RemoveBirthday == \E a \in RemoveFieldInputs : Dispatch("removebday", a, remove_birthday(a, book))

AddEmail == \E a \in EmailInputs : Dispatch("addemail", a, add_email(a, book))

EditEmail == \E a \in EmailInputs : Dispatch("editemail", a, edit_email(a, book))

RemoveEmail == \E a \in RemoveFieldInputs : Dispatch("removeemail", a, remove_email(a, book))

AddNote == \E a \in AddNoteInputs : Dispatch("addnote", a, add_note(a, book))

EditNote == \E a \in EditNoteInputs : Dispatch("editnote", a, edit_note(a, book))

RemoveNote == \E a \in RemoveNoteInputs : Dispatch("removenote", a, remove_note(a, book))

AddTag == \E a \in AddTagInputs : Dispatch("addtag", a, add_tag_to_note(a, book))

RemoveTag == \E a \in RemoveTagInputs : Dispatch("removetag", a, remove_tag_from_note(a, book))

\* contacts and phones
Next ==
  \/ AddContact(AddContactInputs)
  \/ EditName(EditNameInputs)
  \/ RemoveContact(RemoveContactInputs)
  \/ AddPhone
  \/ ChangePhone
  \/ RemovePhone

Spec == Init /\ [][Next]_vars

\* contacts and their names
NextNames ==
  \/ AddContact(NameContactInputs)
  \/ EditName(NameEditInputs)
  \/ RemoveContact(NameRemoveInputs)

SpecNames == Init /\ [][NextNames]_vars

\* contacts, their email and their birthday
NextFields ==
  \/ AddContact(FieldContactInputs)
  \/ AddBirthday
  \/ EditBirthday
  \/ RemoveBirthday
  \/ AddEmail
  \/ EditEmail
  \/ RemoveEmail

SpecFields == Init /\ [][NextFields]_vars

\* one contact, its notes and their tags
NextNotes ==
  \/ AddContact(NoteContactInputs)
  \/ AddNote
  \/ EditNote
  \/ RemoveNote
  \/ AddTag
  \/ RemoveTag

SpecNotes == Init /\ [][NextNotes]_vars

\* the whole command set of main(), on few lines per command
NextSession ==
  \/ AddContact(SessionInputs.addcontact)
  \/ EditName(SessionInputs.editname)
  \/ RemoveContact(SessionInputs.removecontact)
  \/ \E a \in SessionInputs.addphone : Dispatch("addphone", a, add_phone_to_contact(a, book))
  \/ \E a \in SessionInputs.changephone : Dispatch("changephone", a, change_contact(a, book))
  \/ \E a \in SessionInputs.removephone : Dispatch("removephone", a, remove_phone(a, book))
  \/ \E a \in SessionInputs.showphone : Dispatch("showphone", a, show_phone(a, book))
  \/ \E a \in SessionInputs.addbday : Dispatch("addbday", a, add_birthday(a, book, today))
  \/ \E a \in SessionInputs.editbday : Dispatch("editbday", a, edit_birthday(a, book, today))
  \/ \E a \in SessionInputs.removebday : Dispatch("removebday", a, remove_birthday(a, book))
  \/ \E a \in SessionInputs.showbday : Dispatch("showbday", a, show_birthday(a, book))
  \/ \E a \in SessionInputs.upcomingbdays :
        Dispatch("upcomingbdays", a, upcoming_birthdays(a, book, today))
  \/ \E a \in SessionInputs.search : Dispatch("search", a, search_contacts(a, book))
  \/ \E a \in SessionInputs.addemail : Dispatch("addemail", a, add_email(a, book))
  \/ \E a \in SessionInputs.editemail : Dispatch("editemail", a, edit_email(a, book))
  \/ \E a \in SessionInputs.removeemail : Dispatch("removeemail", a, remove_email(a, book))
  \/ \E a \in SessionInputs.addaddress : Dispatch("addaddress", a, add_address(a, book))
  \/ \E a \in SessionInputs.editaddress : Dispatch("editaddress", a, edit_address(a, book))
  \/ \E a \in SessionInputs.removeaddress : Dispatch("removeaddress", a, remove_address(a, book))
  \/ \E a \in SessionInputs.addnote : Dispatch("addnote", a, add_note(a, book))
  \/ \E a \in SessionInputs.editnote : Dispatch("editnote", a, edit_note(a, book))
  \/ \E a \in SessionInputs.removenote : Dispatch("removenote", a, remove_note(a, book))
  \/ \E a \in SessionInputs.addtag : Dispatch("addtag", a, add_tag_to_note(a, book))
  \/ \E a \in SessionInputs.removetag : Dispatch("removetag", a, remove_tag_from_note(a, book))
  \/ \E a \in SessionInputs.searchnote : Dispatch("searchnote", a, search_note(a, book))
  \/ \E a \in SessionInputs.searchtag : Dispatch("searchtag", a, search_note_by_tag(a, book))
  \/ \E a \in SessionInputs.sorttag : Dispatch("sorttag", a, sort_note_by_tag(a, book))

SpecSession == Init /\ [][NextSession]_vars

\* the commands that scan for the name, on lines where the name is ambiguous
NextResolver ==
  \/ AddContact(ResolverInputs.addcontact)
  \/ EditName(ResolverInputs.editname)
  \/ \E a \in ResolverInputs.addaddress : Dispatch("addaddress", a, add_address(a, book))
  \/ \E a \in ResolverInputs.editaddress : Dispatch("editaddress", a, edit_address(a, book))
  \/ \E a \in ResolverInputs.addemail : Dispatch("addemail", a, add_email(a, book))
  \/ \E a \in ResolverInputs.editemail : Dispatch("editemail", a, edit_email(a, book))
  \/ \E a \in ResolverInputs.addnote : Dispatch("addnote", a, add_note(a, book))
  \/ \E a \in ResolverInputs.editnote : Dispatch("editnote", a, edit_note(a, book))
  \/ \E a \in ResolverInputs.removenote : Dispatch("removenote", a, remove_note(a, book))
  \/ \E a \in ResolverInputs.addtag : Dispatch("addtag", a, add_tag_to_note(a, book))
  \/ \E a \in ResolverInputs.removetag : Dispatch("removetag", a, remove_tag_from_note(a, book))

SpecResolver == Init /\ [][NextResolver]_vars

\* one contact and the tags of its notes
NextTags ==
  \/ AddContact(TagInputs.addcontact)
  \/ \E a \in TagInputs.addnote : Dispatch("addnote", a, add_note(a, book))
  \/ \E a \in TagInputs.editnote : Dispatch("editnote", a, edit_note(a, book))
  \/ \E a \in TagInputs.addtag : Dispatch("addtag", a, add_tag_to_note(a, book))
  \/ \E a \in TagInputs.removetag : Dispatch("removetag", a, remove_tag_from_note(a, book))

SpecTags == Init /\ [][NextTags]_vars

\* two contacts and the phone tokens given for them
NextPhoneTokens ==
  \/ AddContact(PhoneTokenInputs.addcontact)
  \/ \E a \in PhoneTokenInputs.addphone : Dispatch("addphone", a, add_phone_to_contact(a, book))
  \/ \E a \in PhoneTokenInputs.changephone : Dispatch("changephone", a, change_contact(a, book))
  \/ \E a \in PhoneTokenInputs.removephone : Dispatch("removephone", a, remove_phone(a, book))

SpecPhoneTokens == Init /\ [][NextPhoneTokens]_vars

\* the program is started on one of several days
InitScheduler ==
  /\ book = <<>>
  /\ today \in SchedulerTodays
  /\ cmd = ""
  /\ args = <<>>
  /\ result = [kind |-> "", info |-> <<>>]
  /\ prev = <<>>

\* two contacts, their birthdays and the list of upcoming birthdays
NextScheduler ==
  \/ AddContact(SchedulerInputs.addcontact)
  \/ \E a \in SchedulerInputs.addbday : Dispatch("addbday", a, add_birthday(a, book, today))
  \/ \E a \in SchedulerInputs.removebday : Dispatch("removebday", a, remove_birthday(a, book))
  \/ \E a \in SchedulerInputs.upcomingbdays :
        Dispatch("upcomingbdays", a, upcoming_birthdays(a, book, today))

SpecScheduler == InitScheduler /\ [][NextScheduler]_vars

\* ------------------------------------------------------------------------
\* Properties
\* ------------------------------------------------------------------------
\* the texts that report a failure of a phone operand
PhoneValidationFailures == {"phone_not_10_digits", "phone_bad_code"}

HasDuplicates(seq) == \E i, j \in 1..Len(seq) : i # j /\ seq[i] = seq[j]

\* the contact name a fixed-operand command is given: all tokens but the last n
NameBefore(a, n) == normalize_name(join_args(SubSeq(a, 1, Len(a) - n)))

\* C1: no phone appears in the phones lists of two different records of the
\* collection, after any sequence of commands
C1_CrossRecordPhoneUnique ==
  \A i, j \in 1..Len(book) :
     i # j => Range(book[i].phones) \cap Range(book[j].phones) = {}

\* a command was refused because its phone is held by another record, in a
\* book of two records that both hold phones
C1_Witness ==
  /\ Len(book) = 2
  /\ book[1].phones # <<>> /\ book[2].phones # <<>>
  /\ result.kind \in {"phone_belongs_to", "new_phone_belongs_to"}

\* C2: no record's phones list holds the same phone twice, in particular
\* after a changephone whose new phone the record already holds
C2_PerRecordPhoneUnique == \A i \in 1..Len(book) : ~HasDuplicates(book[i].phones)

\* the equality of notes of the specification: texts equal case-insensitively
\* and identical tag sets
NotesEqual(n1, n2) == lower(n1.text) = lower(n2.text) /\ n1.tags = n2.tags

\* C3: no record holds two equal notes, after any sequence of addnote,
\* editnote, removenote, addtag and removetag commands
C3_PerRecordNoteUnique ==
  \A i \in 1..Len(book) :
     \A k, m \in 1..Len(book[i].notes) :
        k # m => ~NotesEqual(book[i].notes[k], book[i].notes[m])

\* C4: when editname resolves an existing contact and the new name already
\* names a different contact, that other contact's record is still in the
\* collection, unchanged, after the command
C4_RenameKeepsOtherContact ==
  (cmd = "editname" /\ Len(args) >= 2 /\ scan_name(args, prev, 1, Len(args) - 1) # 0) =>
    LET i == scan_name(args, prev, 1, Len(args) - 1)
        old == AddressBook_find(prev, normalize_name(join_args(SubSeq(args, 1, i))))
        other == AddressBook_find(prev, normalize_name(join_args(SubSeq(args, i + 1, Len(args)))))
    IN (other # 0 /\ other # old) => prev[other] \in Range(book)

\* the name part of an addcontact line: the tokens before the first phone token
AddContactName(a) ==
  IF \E i \in 1..Len(a) : is_phone_token(a[i])
  THEN normalize_name(join_args(SubSeq(a, 1, FirstIndex(a, is_phone_token) - 1)))
  ELSE normalize_name(join_args(a))

\* C5: no two keys of the collection are equal case-insensitively, and an
\* addcontact whose name already exists case-insensitively fails and leaves
\* the collection (hence the existing record) as it was
C5_CaseInsensitiveNames ==
  /\ \A i, j \in 1..Len(book) : i # j => lower(book[i].name) # lower(book[j].name)
  /\ (cmd = "addcontact"
        /\ \E i \in 1..Len(prev) : lower(prev[i].name) = lower(AddContactName(args)))
       => (result.kind # "contact_added" /\ book = prev)

\* C6: addphone on a resolved record fails with the validation failure for a
\* badly shaped phone, as duplicate for a phone already on the record, as
\* owned-by-other for a phone on a different record, and otherwise appends
\* the phone at the end; every failure leaves the whole collection unchanged
C6_AddPhone ==
  (cmd = "addphone" /\ Len(args) >= 2 /\ AddressBook_find(prev, NameBefore(args, 1)) # 0) =>
    LET phone == args[Len(args)]
        idx == AddressBook_find(prev, NameBefore(args, 1))
    IN IF Phone_init(phone) # "ok"
       THEN result.kind \in PhoneValidationFailures /\ book = prev
       ELSE IF phone \in Range(prev[idx].phones)
            THEN result.kind = "phone_exists_here" /\ book = prev
       ELSE IF \E j \in 1..Len(prev) : j # idx /\ phone \in Range(prev[j].phones)
            THEN result.kind = "phone_belongs_to" /\ book = prev
       ELSE /\ result.kind = "phone_added"
            /\ book = [prev EXCEPT ![idx].phones = Append(@, phone)]

\* addphone appended a phone behind an existing one, in a book where another
\* record exists
C6_Witness ==
  /\ cmd = "addphone" /\ result.kind = "phone_added"
  /\ Len(book) = 2
  /\ \E i \in 1..Len(book) : Len(book[i].phones) = 2 /\ Len(prev[i].phones) = 1

\* the phone tokens of an addcontact line
AddContactPhones(a) ==
  IF \E i \in 1..Len(a) : is_phone_token(a[i])
  THEN phone_run(a, FirstIndex(a, is_phone_token))
  ELSE <<>>

\* the holder of a phone in book b (the first record holding it)
OwnerOf(b, phone) == b[FirstIndex(b, LAMBDA r : phone \in Range(r.phones))].name

IsOwned(b, phone) == \E i \in 1..Len(b) : phone \in Range(b[i].phones)

\* phone token k of the line is invalid, repeats an earlier token, or is owned
Offending(b, ps, k) ==
  \/ Phone_init(ps[k]) # "ok"
  \/ \E m \in 1..(k - 1) : ps[m] = ps[k]
  \/ IsOwned(b, ps[k])

\* the failure reported for an offending phone token
PhoneFailure(b, ps, k) ==
  IF Phone_init(ps[k]) # "ok" THEN [kind |-> Phone_init(ps[k]), info |-> <<>>]
  ELSE IF \E m \in 1..(k - 1) : ps[m] = ps[k] THEN [kind |-> "phone_exists_here", info |-> ps[k]]
  ELSE [kind |-> "phone_belongs_to", info |-> OwnerOf(b, ps[k])]

\* C7 as stated: an addcontact with an offending phone token returns the
\* failure of a phone token and inserts nothing
C7_Original ==
  LET ps == AddContactPhones(args) IN
  (cmd = "addcontact" /\ \E k \in 1..Len(ps) : Offending(prev, ps, k)) =>
     /\ book = prev
     /\ \E k \in 1..Len(ps) : Offending(prev, ps, k) /\ result = PhoneFailure(prev, ps, k)

\* C7 amended: an addcontact with an offending phone token inserts nothing
\* and returns a failure; when the line has a name part and the name does not
\* name an existing contact, the failure is that of the first offending
\* token (a Conflict naming the owner when that token is owned)
C7_AddContactAllOrNothing ==
  LET ps == AddContactPhones(args)
      bad == {k \in 1..Len(ps) : Offending(prev, ps, k)}
  IN (cmd = "addcontact" /\ bad # {}) =>
       /\ book = prev
       /\ result.kind # "contact_added"
       /\ (Len(args) >= 2 /\ ~is_phone_token(args[1])
             /\ ~AddressBook_name_exists(prev, AddContactName(args)))
            => result = PhoneFailure(prev, ps, CHOOSE k \in bad : \A m \in bad : k <= m)

\* the scenario of the specification: 'ivan petrov' holds 0987654321 and
\* addcontact 'Ivan' with 0987654321 is refused, naming 'Ivan Petrov'
C7_Witness ==
  /\ cmd = "addcontact"
  /\ args = <<tIvan, P1>>
  /\ result = [kind |-> "phone_belongs_to", info |-> normalize_name(join_args(<<tIvan, tPetrov>>))]
  /\ book = prev

\* C8: changephone on a resolved record fails with PhoneNotFound when `old`
\* is not on the record (before `new` is validated), with the validation
\* failure when `new` is malformed, with PhoneOwnedByOther when `new` is on a
\* different record; on success `new` stands where `old` stood and nothing
\* else moved; on failure nothing changed
C8_EditPhone ==
  (cmd = "changephone" /\ Len(args) >= 3 /\ AddressBook_find(prev, NameBefore(args, 2)) # 0) =>
    LET old == args[Len(args) - 1]
        new == args[Len(args)]
        idx == AddressBook_find(prev, NameBefore(args, 2))
        phones == prev[idx].phones
    IN IF old \notin Range(phones)
       THEN result.kind = "old_phone_not_found" /\ book = prev
       ELSE IF Phone_init(new) # "ok"
            THEN result.kind \in PhoneValidationFailures /\ book = prev
       ELSE IF \E j \in 1..Len(prev) : j # idx /\ new \in Range(prev[j].phones)
            THEN result.kind = "new_phone_belongs_to" /\ book = prev
       ELSE /\ result.kind = "phone_updated"
            /\ Len(book) = Len(prev)
            /\ \A j \in 1..Len(prev) : j # idx => book[j] = prev[j]
            /\ Len(book[idx].phones) = Len(phones)
            /\ \E k \in 1..Len(phones) :
                 /\ phones[k] = old
                 /\ book[idx].phones[k] = new
                 /\ \A m \in 1..Len(phones) : m # k => book[idx].phones[m] = phones[m]
            /\ book[idx] = [prev[idx] EXCEPT !.phones = book[idx].phones]

\* changephone replaced the second of two phones by a third one
C8_Witness ==
  /\ cmd = "changephone" /\ result.kind = "phone_updated"
  /\ \E i \in 1..Len(book) :
       /\ Len(prev[i].phones) = 2
       /\ prev[i].phones[1] = book[i].phones[1]
       /\ prev[i].phones[2] # book[i].phones[2]

\* the record a scanning command resolves in book b: its position, 0 for none
Resolved(a, b) ==
  IF Len(a) < 2 \/ scan_name(a, b, 1, Len(a) - 1) = 0 THEN 0
  ELSE AddressBook_find(b, normalize_name(join_args(SubSeq(a, 1, scan_name(a, b, 1, Len(a) - 1)))))

\* the operand of a scanning command: the tokens behind the resolved name
Operand(a, b) == join_args(SubSeq(a, scan_name(a, b, 1, Len(a) - 1) + 1, Len(a)))

\* C9: addemail on a record whose email is set fails and leaves it; editemail
\* on a record without email fails with NotSet and leaves it unset; addemail
\* or editemail with a badly formed value fails and leaves the email as it was
C9_EmailAddEdit ==
  /\ (cmd = "addemail" /\ Resolved(args, prev) # 0) =>
       LET idx == Resolved(args, prev) IN
       /\ prev[idx].email.set => (result.kind = "email_already_exists" /\ book = prev)
       /\ Operand(args, prev) \in InvalidEmailInputs =>
            (result.kind \in {"email_already_exists", "email_invalid"} /\ book = prev)
  /\ (cmd = "editemail" /\ Resolved(args, prev) # 0) =>
       LET idx == Resolved(args, prev) IN
       /\ ~prev[idx].email.set => (result.kind = "email_not_set" /\ book = prev)
       /\ Operand(args, prev) \in InvalidEmailInputs =>
            (result.kind \in {"email_not_set", "email_invalid"} /\ book = prev)

\* editemail with a well-formed address was refused on a record without email
C9_Witness ==
  /\ cmd = "editemail"
  /\ Resolved(args, prev) # 0
  /\ Operand(args, prev) \in ValidEmailInputs
  /\ ~prev[Resolved(args, prev)].email.set
  /\ result.kind = "email_not_set"

\* C10: addbday on a record whose birthday is set fails and leaves it;
\* editbday with a valid date replaces the birthday whether or not one was
\* set; removebday leaves the birthday unset; addbday or editbday with an
\* invalid date fails and leaves the stored birthday unchanged
C10_BirthdayAddEditRemove ==
  /\ (cmd = "addbday" /\ Len(args) >= 2 /\ AddressBook_find(prev, NameBefore(args, 1)) # 0) =>
       LET idx == AddressBook_find(prev, NameBefore(args, 1)) IN
       /\ prev[idx].birthday.set => (result.kind # "bday_added" /\ book = prev)
       /\ args[Len(args)] \in InvalidBirthdayInputs => (result.kind # "bday_added" /\ book = prev)
  /\ (cmd = "editbday" /\ Len(args) >= 2 /\ AddressBook_find(prev, NameBefore(args, 1)) # 0) =>
       LET idx == AddressBook_find(prev, NameBefore(args, 1)) IN
       /\ args[Len(args)] \in ValidBirthdayInputs =>
            /\ result.kind = "bday_updated"
            /\ book = [prev EXCEPT ![idx].birthday = Field(args[Len(args)])]
       /\ args[Len(args)] \in InvalidBirthdayInputs => (result.kind # "bday_updated" /\ book = prev)
  /\ (cmd = "removebday" /\ Len(args) >= 1 /\ AddressBook_find(prev, NameBefore(args, 0)) # 0) =>
       LET idx == AddressBook_find(prev, NameBefore(args, 0)) IN
       /\ ~book[idx].birthday.set
       /\ book = [prev EXCEPT ![idx].birthday = NoneField]

\* editbday set a birthday on a record that had none
C10_Witness ==
  /\ cmd = "editbday" /\ result.kind = "bday_updated"
  /\ \E i \in 1..Len(book) : ~prev[i].birthday.set /\ book[i].birthday.set

\* an addnote line resolved a contact that already holds a note with the text
\* of the line (tags stripped, trimmed, compared case-insensitively)
AddNoteDuplicate ==
  /\ cmd = "addnote"
  /\ Resolved(args, prev) # 0
  /\ \E k \in 1..Len(prev[Resolved(args, prev)].notes) :
       note_key(prev[Resolved(args, prev)].notes[k]) = lower(strip(sub_tags(Operand(args, prev))))

\* every '#word' of the operand of the line is a well-formed tag
OperandTagsValid ==
  LET tags == extract_tags_from_text(Operand(args, prev)) IN
  \A t \in 1..Len(tags) : TAG_PATTERN(tags[t])

\* C11 as stated: an addnote whose text the record already holds returns
\* "already exists" whatever tags the line carries, and changes no note
C11_Original == AddNoteDuplicate => (result.kind = "note_already_exists" /\ book = prev)

\* C11 amended: an addnote whose text the record already holds leaves the
\* notes (number, order, texts, tag sets) unchanged; it returns "already
\* exists" when every tag of the line is well-formed and the invalid-tag
\* failure when one is not
C11_DuplicateNoteNoOp ==
  AddNoteDuplicate =>
    /\ book = prev
    /\ result.kind = (IF OperandTagsValid THEN "note_already_exists" ELSE "invalid_tag")

\* a note held with one tag was added again in other case with another tag
C11_Witness ==
  /\ AddNoteDuplicate
  /\ result.kind = "note_already_exists"
  /\ \E k \in 1..Len(book[1].notes) :
       /\ note_key(book[1].notes[k]) = lower(strip(sub_tags(Operand(args, prev))))
       /\ book[1].notes[k].tags # {}
       /\ book[1].notes[k].text # strip(sub_tags(Operand(args, prev)))
       /\ Range(extract_tags_from_text(Operand(args, prev))) \notin {{}, book[1].notes[k].tags}

\* the rules of a stored tag: 1 to 30 ASCII letters, digits or underscores,
\* lower-cased, no leading '#'
TagWellFormed(tag) ==
  /\ Len(tag) >= 1 /\ Len(tag) <= 30
  /\ \A c \in 1..Len(tag) : IsAsciiAlpha(tag[c]) \/ tag[c] \in AsciiDigits \/ tag[c] = "_"
  /\ tag = lower(tag)
  /\ tag[1] # "#"

\* C12: after any sequence of addnote, editnote, addtag and removetag
\* commands every tag stored on every note is well-formed; a line carrying a
\* tag that breaks the rules stores no such tag
C12_TagsNormalized ==
  \A i \in 1..Len(book) : \A k \in 1..Len(book[i].notes) :
     \A tag \in book[i].notes[k].tags : TagWellFormed(tag)

\* the number of tokens of the name a removenote or removetag line resolves
\* in book b (these two commands may take the whole line as the name)
NameLen(a, b) == IF a = <<>> THEN 0 ELSE scan_name(a, b, 1, Len(a))

\* the position of the record such a line resolves
ResolvedIdx(a, b) ==
  AddressBook_find(b, normalize_name(join_args(SubSeq(a, 1, NameLen(a, b)))))

\* the text behind the resolved name
TextAfterName(a, b) == join_args(SubSeq(a, NameLen(a, b) + 1, Len(a)))

\* the notes of record r whose text matches `text` once its '#tag' tokens are
\* stripped, trimmed and lower-cased
MatchingNotes(r, text) ==
  {k \in 1..Len(r.notes) : note_key(r.notes[k]) = lower(strip(sub_tags(text)))}

\* C13: removenote with a text that matches no note of the resolved contact
\* reports not-found and changes nothing; with a matching text (with or
\* without '#tag' tokens) exactly that one note is removed and success is
\* reported
C13_RemoveNote ==
  (cmd = "removenote" /\ NameLen(args, prev) # 0 /\ strip(TextAfterName(args, prev)) # <<>>) =>
    LET idx == ResolvedIdx(args, prev)
        hits == MatchingNotes(prev[idx], TextAfterName(args, prev))
    IN IF hits = {}
       THEN result.kind = "note_not_found" /\ book = prev
       ELSE /\ result.kind = "note_removed"
            /\ \E k \in hits : book = [prev EXCEPT ![idx].notes = RemoveAt(@, k)]

\* C14: removetag on a resolved contact: a text that matches no note fails
\* and changes nothing; a text without '#tag' token clears every tag of the
\* matched note and leaves its text, the other notes and the order alone; a
\* '#tag' present on the matched note is the one tag removed
C14_RemoveTag ==
  (cmd = "removetag" /\ Len(args) >= 2 /\ NameLen(args, prev) \in 1..(Len(args) - 1)) =>
    LET idx == ResolvedIdx(args, prev)
        text == TextAfterName(args, prev)
        hits == MatchingNotes(prev[idx], text)
        tokens == findall_tags(text)
    IN IF hits = {}
       THEN result.kind = "provide_note_and_tag_for" /\ book = prev
       ELSE LET k == CHOOSE h \in hits : \A m \in hits : h <= m IN
            IF tokens = <<>>
            THEN /\ book = [prev EXCEPT ![idx].notes[k].tags = {}]
                 /\ result.kind \in {"all_tags_removed", "note_has_no_tags"}
            ELSE lower(tokens[1]) \in prev[idx].notes[k].tags =>
                   /\ book = [prev EXCEPT ![idx].notes[k].tags = @ \ {lower(tokens[1])}]
                   /\ result.kind = "tag_removed"

\* removetag without a tag cleared the two tags of the second of two notes
C14_Witness ==
  /\ cmd = "removetag" /\ result.kind = "all_tags_removed"
  /\ findall_tags(TextAfterName(args, prev)) = <<>>
  /\ \E i \in 1..Len(prev) :
       /\ Len(prev[i].notes) = 2
       /\ Cardinality(prev[i].notes[2].tags) = 2
       /\ book[i].notes[2] = [prev[i].notes[2] EXCEPT !.tags = {}]
       /\ book[i].notes[1] = prev[i].notes[1]

\* C15: whatever line is typed, on whatever book, the command function
\* returns a text (one of its messages, or the text input_error makes of an
\* exception): no exception leaves the command and stops the command loop
C15_AlwaysAnswers == cmd # "" => result.kind \notin {"", "Traceback"}

\* showbday matched two contacts of which one has no birthday; the
\* AttributeError of line 605 came back as a text
C15_Witness ==
  /\ cmd = "showbday"
  /\ Len(name_matches(prev, normalize_name(join_args(args)))) = 2
  /\ result.kind = "something_went_wrong"

\* the messages that report that the command did what it was asked
SuccessKinds ==
  { "contact_added", "name_changed", "contact_removed",
    "phone_added", "phone_updated", "phone_removed",
    "bday_added", "bday_updated", "bday_removed",
    "address_added", "address_updated", "address_removed",
    "email_added", "email_updated", "email_removed",
    "note_added", "note_updated", "note_removed", "all_notes_removed",
    "tag_added", "tag_removed", "all_tags_removed" }

\* the commands that find the name by scanning the prefixes of the line
ScanCommands ==
  { "editname", "addaddress", "editaddress", "addemail", "editemail",
    "addnote", "editnote", "removenote", "addtag", "removetag" }

\* the length of the shortest prefix of the line that names a contact of b,
\* 0 when no prefix does
ShortestPrefix(a, b) ==
  LET named == {i \in 1..Len(a) :
                  \E r \in 1..Len(b) :
                     lower(b[r].name) = lower(normalize_name(join_args(SubSeq(a, 1, i))))}
  IN IF named = {} THEN 0 ELSE CHOOSE i \in named : \A k \in named : i <= k

\* C16: a scanning command acts on the contact named by the shortest prefix
\* of the line that names a contact, with the rest of the line as operand:
\* no other record changes, and the value stored is made of exactly those
\* tokens; when no prefix names a contact it fails and changes nothing
C16_ShortestPrefix ==
  cmd \in ScanCommands =>
    LET i == ShortestPrefix(args, prev)
        idx == AddressBook_find(prev, normalize_name(join_args(SubSeq(args, 1, i))))
        operand == join_args(SubSeq(args, i + 1, Len(args)))
    IN IF i = 0 THEN book = prev /\ result.kind \notin SuccessKinds
       ELSE IF cmd = "editname"
            THEN result.kind = "name_changed" =>
                   \E j \in 1..Len(book) :
                      book[j] = [prev[idx] EXCEPT !.name = normalize_name(operand)]
       ELSE /\ Len(book) = Len(prev)
            /\ \A j \in 1..Len(prev) : j # idx => book[j] = prev[j]
            /\ book[idx] = [prev[idx] EXCEPT !.address = book[idx].address,
                                             !.email = book[idx].email,
                                             !.notes = book[idx].notes]
            /\ result.kind \in {"address_added", "address_updated"} =>
                 book[idx].address = Field(title(operand))
            /\ result.kind \in {"email_added", "email_updated"} =>
                 book[idx].email = Field(operand)
            /\ result.kind = "note_added" =>
                 book[idx].notes[Len(book[idx].notes)].text = strip(sub_tags(operand))

\* 'Ivan' and 'Ivan Petrov' are both contacts, and addaddress with the line
\* 'ivan petrov kyiv' gave Ivan the address 'Petrov Kyiv'
C16_Witness ==
  /\ cmd = "addaddress" /\ result.kind = "address_added"
  /\ args = <<tIvan, tPetrov, tKyiv>>
  /\ ShortestPrefix(args, prev) = 1
  /\ AddressBook_name_exists(prev, normalize_name(join_args(<<tIvan, tPetrov>>)))
  /\ book[AddressBook_find(book, normalize_name(tIvan))].address
       = Field(title(join_args(<<tPetrov, tKyiv>>)))

\* the day of the year `y` with the day and month of `dt`; ok = FALSE when the
\* year has no such day
InYear(dt, y) == IF valid_date(y, dt.m, dt.d) THEN Date(dt.d, dt.m, y) ELSE NoDate

\* the next occurrence of a birthday seen from `now`: this year's date, or
\* next year's when this year's is before `now`
NextOccurrence(dt, now) ==
  IF InYear(dt, now.y).ok /\ toordinal(InYear(dt, now.y)) < toordinal(now)
  THEN InYear(dt, now.y + 1)
  ELSE InYear(dt, now.y)

\* record r has a birthday whose next occurrence is in [now, now + 7]
Qualifies(r, now) ==
  /\ r.birthday.set
  /\ strptime(r.birthday.value).ok
  /\ NextOccurrence(strptime(r.birthday.value), now).ok
  /\ toordinal(NextOccurrence(strptime(r.birthday.value), now)) \in
       toordinal(now)..(toordinal(now) + 7)

\* the entries the last upcomingbdays listed
Listed == IF result.kind = "upcoming" THEN result.info ELSE <<>>

\* C17: upcomingbdays lists a record exactly when it has a birthday whose
\* next occurrence lies in [today, today + 7], ends included and weekends
\* too, and lists it once
C17_Inclusion ==
  (cmd = "upcomingbdays" /\ args = <<>>) =>
    /\ result.kind \in {"upcoming", "no_upcoming_birthdays"}
    /\ \A i \in 1..Len(prev) :
         Cardinality({k \in 1..Len(Listed) : Listed[k].name = prev[i].name})
           = (IF Qualifies(prev[i], today) THEN 1 ELSE 0)
    /\ \A k \in 1..Len(Listed) : \E i \in 1..Len(prev) : Listed[k].name = prev[i].name

\* a birthday seven days ahead that falls on a Saturday was listed, next to
\* a second record
C17_Witness ==
  /\ cmd = "upcomingbdays" /\ result.kind = "upcoming"
  /\ Len(Listed) = 2
  /\ \E i \in 1..Len(prev) :
       /\ Qualifies(prev[i], today)
       /\ toordinal(NextOccurrence(strptime(prev[i].birthday.value), today)) = toordinal(today) + 7
       /\ weekday(NextOccurrence(strptime(prev[i].birthday.value), today)) = 5

\* the record of the book with this name (names are the keys of the book)
RecordNamed(b, name) == b[CHOOSE i \in 1..Len(b) : b[i].name = name]

\* the days a next occurrence is moved by: two from a Saturday, one from a
\* Sunday, none otherwise
WeekendShift(dt) == IF weekday(dt) = 5 THEN 2 ELSE IF weekday(dt) = 6 THEN 1 ELSE 0

\* C18: the date listed for a record is the next occurrence of its birthday,
\* moved by two days from a Saturday and by one from a Sunday; no listed date
\* is a Saturday or a Sunday, none is before today, and the line reads
\* "<name>: <DD.MM.YYYY>"
C18_WeekendShift ==
  (cmd = "upcomingbdays" /\ result.kind = "upcoming") =>
    \A k \in 1..Len(Listed) :
      /\ \E i \in 1..Len(prev) : prev[i].name = Listed[k].name
      /\ LET occ == NextOccurrence(strptime(RecordNamed(prev, Listed[k].name).birthday.value), today)
         IN /\ occ.ok
            /\ toordinal(Listed[k].date) = toordinal(occ) + WeekendShift(occ)
      /\ weekday(Listed[k].date) \notin {5, 6}
      /\ toordinal(Listed[k].date) >= toordinal(today)
      /\ Listed[k].text = Listed[k].name \o <<":", " ">> \o strftime(Listed[k].date)

\* a Saturday birthday and a Sunday birthday were listed, both on the Monday
C18_Witness ==
  /\ cmd = "upcomingbdays" /\ result.kind = "upcoming"
  /\ \E j, k \in 1..Len(Listed) :
       /\ j # k
       /\ Listed[j].date = Listed[k].date
       /\ weekday(NextOccurrence(strptime(RecordNamed(prev, Listed[j].name).birthday.value), today)) = 5
       /\ weekday(NextOccurrence(strptime(RecordNamed(prev, Listed[k].name).birthday.value), today)) = 6

\* exactly ten ASCII digits of which the first three are a whitelisted code
AsciiPhone(s) ==
  /\ Len(s) = 10
  /\ \A i \in 1..Len(s) : s[i] \in AsciiDigits
  /\ SubSeq(s, 1, 3) \in VALID_CODES

\* C19: a phone token is accepted exactly when it is ten ASCII digits
\* starting with a whitelisted code: an addphone for an existing contact fails
\* validation exactly for the other tokens, and no other token is ever stored
C19_PhoneValidation ==
  /\ (cmd = "addphone" /\ Len(args) >= 2 /\ result.kind # "contact_not_found") =>
       (result.kind \in PhoneValidationFailures <=> ~AsciiPhone(args[Len(args)]))
  /\ \A i \in 1..Len(book) : \A k \in 1..Len(book[i].phones) : AsciiPhone(book[i].phones[k])

\* C20: a command whose result is not a success message leaves the
\* collection as it was: the same keys in the same order, and every record's
\* phones, birthday, email, address, notes and tags unchanged
C20_FailureAtomic ==
  (cmd # "" /\ result.kind \notin SuccessKinds) => book = prev

\* an addbday for a contact without a birthday got past the format test and
\* the lookup, was refused by the validation of the date, and the contact
\* still has no birthday
C20_Witness ==
  /\ cmd = "addbday" /\ Len(args) >= 2
  /\ result.kind \notin SuccessKinds
  /\ strptime(args[Len(args)]).ok
  /\ AddressBook_find(prev, NameBefore(args, 1)) # 0
  /\ ~prev[AddressBook_find(prev, NameBefore(args, 1))].birthday.set
  /\ Len(book) = 2
  /\ book = prev

\* what an editnote line resolves to in book b: the record, the position of
\* the note matched by the old text, and the new text
EditNoteRecord(a, b) ==
  AddressBook_find(b, normalize_name(join_args(SubSeq(a, 1, scan_name(a, b, 1, Len(a) - 1)))))

EditNoteRemaining(a, b) == SubSeq(a, scan_name(a, b, 1, Len(a) - 1) + 1, Len(a))

EditNoteOldLen(a, b) == scan_old_note(b[EditNoteRecord(a, b)], EditNoteRemaining(a, b))

EditNotePosition(a, b) ==
  CHOOSE k \in 1..Len(b[EditNoteRecord(a, b)].notes) :
    /\ note_key(b[EditNoteRecord(a, b)].notes[k])
         = lower(strip(join_args(SubSeq(EditNoteRemaining(a, b), 1, EditNoteOldLen(a, b)))))
    /\ \A m \in 1..(k - 1) :
         note_key(b[EditNoteRecord(a, b)].notes[m])
           # lower(strip(join_args(SubSeq(EditNoteRemaining(a, b), 1, EditNoteOldLen(a, b)))))

EditNoteNewText(a, b) ==
  join_args(SubSeq(EditNoteRemaining(a, b), EditNoteOldLen(a, b) + 1, Len(EditNoteRemaining(a, b))))

\* C21: after a successful editnote the matched note holds the stripped new
\* text and exactly the tags of the '#word' tokens of the new text, and
\* every other note of the contact and every other record is unchanged
C21_EditNoteFrame ==
  (cmd = "editnote" /\ result.kind = "note_updated") =>
    book = [prev EXCEPT ![EditNoteRecord(args, prev)].notes[EditNotePosition(args, prev)] =
              [text |-> strip(sub_tags(EditNoteNewText(args, prev))),
               tags |-> Range(extract_tags_from_text(EditNoteNewText(args, prev)))]]

\* the loop of get_upcoming_birthdays left record r through `except
\* ValueError: continue`
Skipped(r, now) ==
  r.birthday.set /\ ~next_occurrence(strptime(r.birthday.value), now).ok

\* C22: upcomingbdays skips a record only when its stored birthday is not a
\* valid date: a record whose birthday passes the validation of Birthday,
\* 29.02. of a leap year included, is evaluated in a leap year and in any other
C22_SkipsOnlyMalformed ==
  (cmd = "upcomingbdays" /\ args = <<>>) =>
    \A i \in 1..Len(prev) :
      (prev[i].birthday.set /\ Birthday_init(prev[i].birthday.value, today) = "ok")
        => ~Skipped(prev[i], today)

\* C23 as stated: no record of the collection has an empty phones list
C23_Original ==
  \A i \in 1..Len(book) : book[i].phones # <<>>

\* the number of records without a phone
EmptyCount(b) == Cardinality({i \in 1..Len(b) : b[i].phones = <<>>})

\* C23: a record is created with at least one phone; a successful
\* removephone takes the given phone out of the list also when it is the
\* only one, and no other command leaves more records without a phone than
\* it found
C23_PhonesAtCreation ==
  /\ (cmd = "addcontact" /\ result.kind = "contact_added") =>
       /\ Len(book) = Len(prev) + 1
       /\ SubSeq(book, 1, Len(prev)) = prev
       /\ book[Len(book)].phones # <<>>
  /\ (cmd = "removephone" /\ result.kind = "phone_removed") =>
       /\ AddressBook_find(prev, NameBefore(args, 1)) # 0
       /\ \E k \in 1..Len(prev[AddressBook_find(prev, NameBefore(args, 1))].phones) :
            /\ prev[AddressBook_find(prev, NameBefore(args, 1))].phones[k] = args[Len(args)]
            /\ book = [prev EXCEPT ![AddressBook_find(prev, NameBefore(args, 1))].phones = RemoveAt(@, k)]
  /\ EmptyCount(book) > EmptyCount(prev) => (cmd = "removephone" /\ result.kind = "phone_removed")

\* removephone took the only phone of a record
C23_Witness ==
  /\ cmd = "removephone" /\ result.kind = "phone_removed"
  /\ \E i \in 1..Len(book) :
       /\ i <= Len(prev)
       /\ Len(prev[i].phones) = 1
       /\ book[i].phones = <<>>
====
